---- MODULE Spec2Model ----
(***************************************************************************)
(* A model of the persistence engine of the "find my device" service       *)
(* (pgStore: nonce store, command queue, position tracker, device          *)
(* registry).  Tables are sets of rows; every storage statement of a       *)
(* handler is an operator on tables, the sequential specifications run a   *)
(* handler as one action, the concurrent ones run it statement by          *)
(* statement.  In the sequential specifications a call takes one tick of   *)
(* the clock, so a later call reads a later time; in the concurrent ones   *)
(* the clock advances on its own and statements may read the same time.    *)
(* Storage statements do not fail, except the re-key update of             *)
(* GetDevicesForUser and the deletes of DeleteDevice, whose failure the    *)
(* handlers answer, and the statements of CheckNonce and GetPending in the *)
(* failing-storage specification.  The tables carry no unique key: rows    *)
(* are told apart by their serial id alone.  The last part models the Hawk *)
(* authenticator (hawk.go): its string functions, and one exchange of a    *)
(* signed request.                                                         *)
(***************************************************************************)
EXTENDS Integers, Sequences, FiniteSets, TLC

\* ------------------------------------------------------------------ bounds
MaxTime == 7        \* the clock stops here, and with it every handler
MaxNonces == 2      \* GetNonce calls in one behaviour
MaxCalls == 6       \* calls of the registry and the command queue in one behaviour
MaxRows == 3        \* rows ever inserted in one table by the concurrent workers
MaxSkew == 1        \* clock ticks while the concurrent workers of the queue run
MaxRegCalls == 4    \* calls in one behaviour of the registry specification
MaxDelCalls == 5    \* calls in one behaviour of the cascade specification
MaxFaultCalls == 4  \* calls in one behaviour of the failing-storage specification
MaxFrameCalls == 3  \* calls in one behaviour of the device-record specification

\* --------------------------------------------------------------- constants
NonceTTL == 5       \* "interval '5 minutes'", in clock ticks
DefExpry == 3       \* the configured db.default_expry, in clock ticks
F32Mantissa == 24   \* significant bits of a float32
MaxDev == 1         \* db.max_devices_per_user, by default

VARIABLES
    now,                \* the clock of the store (current_timestamp, dbNow())
    uuids,              \* how many identifiers util.GenUUID4 has handed out
    nonce,              \* table nonce: rows [key, val, time]
    pendingCommands,    \* table pendingCommands: rows [id, deviceId, time, cmd, type]
    position,           \* table position: rows [id, deviceId, time, latitude, ...]
    deviceInfo,         \* table deviceInfo: rows [rid, deviceId, lockable, ...]
    userToDeviceMap,    \* table userToDeviceMap: rows [rid, userId, deviceId, name, date]
    serial,             \* the row counters of the tables (bigserial ids, row identity)
    queue,              \* history: per device, the (type, payload) last stored for
                        \* each type and not yet delivered, in order of last store
    ret,                \* the last completed call: operation, arguments, results
    issued,             \* history: what GetNonce returned, [str, key, time]
    checked,            \* history: issued strings already passed to CheckNonce
    tampered,           \* history: issued keys looked up with another string
    accepted,           \* history: strings for which CheckNonce returned true
    proc,               \* the in-flight call of every concurrent worker
    hawk                \* the exchange of the authenticator: the request signed,
                        \* the Hawk of the signer, the Hawk of the verifier

nonceVars == <<nonce, issued, checked, tampered, accepted>>
storeVars == <<pendingCommands, position, deviceInfo, userToDeviceMap, serial, queue>>
vars == <<now, uuids, nonceVars, storeVars, ret, proc, hawk>>

\* ---------------------------------------------------------------- strings
\* A string is a sequence of characters; a character is a number.  DOT is
\* ".", an identifier i is the one-character string <<i>>.
DOT == 0

Procs == {"w1", "w2"}

\* Identifiers, command types and payloads the callers use.
Devices == {<<21>>, <<22>>}
Users == {<<31>>}
CmdTypes == {<<41>>, <<42>>}
Payloads == {<<51>>, <<52>>}

\* The n-th identifier of the generator: unique, never containing ".".
GenUUID4(n) == <<n + 1>>

RECURSIVE Encode(_)
Encode(s) == IF s = <<>> THEN 0
             ELSE (Head(s) + 1) + (2 * MaxNonces + 4) * Encode(Tail(s))

\* hex(md5(s)): one character per digest, different for different s.
Md5Hex(s) == <<1000 + Encode(s)>>

RECURSIVE IndexOf(_, _, _)
IndexOf(s, c, i) == IF i > Len(s) THEN 0
                    ELSE IF s[i] = c THEN i ELSE IndexOf(s, c, i + 1)

\* strings.SplitN(s, sep, 2)
SplitN2(s, sep) ==
    LET i == IndexOf(s, sep, 1)
    IN  IF i = 0 THEN <<s>>
        ELSE <<SubSeq(s, 1, i - 1), SubSeq(s, i + 1, Len(s))>>

genSig(key, val) == Md5Hex(key \o <<DOT>> \o val)

\* ------------------------------------------------------ nonce statements
\* delete from nonce where time < current_timestamp - interval '5 minutes'
NoncePurgeNone(tbl, t) == tbl
NoncePurge(tbl, t) == {r \in tbl : ~(r.time < t - NonceTTL)}

\* select val from nonce where key = $1 limit 1: the rows one may be taken from
NonceSelect(tbl, key) == {r \in tbl : r.key = key}

\* delete from nonce where key = $1
NonceDeleteNone(tbl, key) == tbl
NonceDeleteAll(tbl, key) == {}
NonceDelete(tbl, key) == {r \in tbl : r.key # key}

\* ---------------------------------------------------------------- numbers
RECURSIVE BitLen(_)
BitLen(x) == IF x = 0 THEN 0 ELSE 1 + BitLen(x \div 2)

RECURSIVE Pow2(_)
Pow2(n) == IF n <= 0 THEN 1 ELSE 2 * Pow2(n - 1)

\* float32(x) of a float64 x that is a whole number: x rounded to F32Mantissa
\* significant bits, to nearest, ties to the even significand.
Float32(x) ==
    LET a == IF x < 0 THEN -x ELSE x
        q == Pow2(BitLen(a) - F32Mantissa)
        r == a % q
        lo == a - r
        m == IF 2 * r < q THEN lo
             ELSE IF 2 * r > q THEN lo + q
             ELSE IF (lo \div q) % 2 = 0 THEN lo ELSE lo + q
    IN  IF x < 0 THEN -m ELSE m

\* float64(x) of a float32 x: exact.
Float64(x) == x

\* ------------------------------------------------------- store statements
\* update pendingCommands set time=$1, cmd=$2 where deviceid=$3 and type=$4
PendingHits(tbl, devId, cType) == {r \in tbl : r.deviceId = devId /\ r.type = cType}

PendingUpdateKeepCmd(tbl, devId, cType, command, t) ==
    {IF r \in PendingHits(tbl, devId, cType) THEN [r EXCEPT !.time = t] ELSE r
       : r \in tbl}
PendingUpdate(tbl, devId, cType, command, t) ==
    {IF r \in PendingHits(tbl, devId, cType)
     THEN [r EXCEPT !.time = t, !.cmd = command] ELSE r : r \in tbl}

\* insert into pendingCommands (deviceid, time, cmd, type) values (...)
PendingInsert(tbl, id, devId, t, command, cType) ==
    tbl \cup {[id |-> id, deviceId |-> devId, time |-> t, cmd |-> command,
               type |-> cType]}

\* select id, cmd, type, time from pendingCommands where deviceId = $1
\* order by time limit 1: the rows one may be taken from
PendingSelectNewest(tbl, devId) ==
    {r \in tbl : /\ r.deviceId = devId
                 /\ \A q \in tbl : q.deviceId = devId => r.time >= q.time}
PendingSelect(tbl, devId) ==
    {r \in tbl : /\ r.deviceId = devId
                 /\ \A q \in tbl : q.deviceId = devId => r.time <= q.time}

\* delete from pendingCommands where id = $1
PendingDelete(tbl, id) == {r \in tbl : r.id # id}

\* delete from pendingcommands where deviceid=$1
PendingPurge(tbl, devId) == {r \in tbl : r.deviceId # devId}

\* update deviceInfo set lastexchange = now() where deviceid = $1
Touch(tbl, devId, t) ==
    {IF r.deviceId = devId THEN [r EXCEPT !.lastExchange = t] ELSE r : r \in tbl}

\* delete from position where deviceid = $1
PurgePositionNone(tbl, devId) == tbl
PurgePosition(tbl, devId) == {r \in tbl : r.deviceId # devId}

\* insert into position (deviceId, time, latitude, longitude, altitude, accuracy)
PositionInsert(tbl, id, devId, t, p) ==
    tbl \cup {[id |-> id, deviceId |-> devId, time |-> t,
               latitude |-> Float32(p.Latitude),
               longitude |-> Float32(p.Longitude),
               altitude |-> Float32(p.Altitude),
               accuracy |-> Float32(p.Accuracy)]}

\* select extract(epoch from time)::int, latitude, ... from position
\* where deviceid=$1 order by time limit 1: the rows one may be taken from
PositionSelect(tbl, devId) ==
    {r \in tbl : /\ r.deviceId = devId
                 /\ \A q \in tbl : q.deviceId = devId => r.time <= q.time}

\* delete from position where time < (now() - interval '<defExpry> seconds')
PositionExpire(tbl, t) == {r \in tbl : ~(r.time < t - DefExpry)}

\* select deviceid from userToDeviceMap where userId = $1 and deviceid=$2
MapSelect(tbl, userid, devId) ==
    {m \in tbl : m.userId = userid /\ m.deviceId = devId}

\* update deviceinfo set lockable=$1, loggedin=$2, lastExchange=$3,
\* hawkSecret=$4, accepts=$5, pushUrl=$6 where deviceid=$7
DeviceUpdate(tbl, dev, t) ==
    {IF r.deviceId = dev.ID
     THEN [r EXCEPT !.lockable = dev.HasPasscode, !.loggedin = dev.LoggedIn,
                    !.lastExchange = t, !.hawkSecret = dev.Secret,
                    !.accepts = dev.Accepts, !.pushUrl = dev.PushUrl]
     ELSE r : r \in tbl}

\* insert into deviceInfo (deviceId, lockable, loggedin, lastExchange,
\* hawkSecret, accepts, pushUrl) values (...)
DeviceInsert(tbl, rid, dev, t) ==
    tbl \cup {[rid |-> rid, deviceId |-> dev.ID, lockable |-> dev.HasPasscode,
               loggedin |-> dev.LoggedIn, lastExchange |-> t,
               hawkSecret |-> dev.Secret, accepts |-> dev.Accepts,
               pushUrl |-> dev.PushUrl, accesstoken |-> <<>>]}

\* update deviceInfo set accesstoken = $1, lastexchange = now() where deviceId = $2
AccessTokenUpdateSecret(tbl, devId, token, t) ==
    {IF r.deviceId = devId THEN [r EXCEPT !.hawkSecret = token, !.lastExchange = t]
     ELSE r : r \in tbl}
AccessTokenUpdate(tbl, devId, token, t) ==
    {IF r.deviceId = devId THEN [r EXCEPT !.accesstoken = token, !.lastExchange = t]
     ELSE r : r \in tbl}

\* update deviceInfo set lockable = $1, lastexchange = now() where deviceId = $2
LockUpdate(tbl, devId, state, t) ==
    {IF r.deviceId = devId THEN [r EXCEPT !.lockable = state, !.lastExchange = t]
     ELSE r : r \in tbl}

\* insert into userToDeviceMap (userId, deviceId, name, date) values ($1, $2, $3, now())
MapInsert(tbl, rid, userid, devId, t) ==
    tbl \cup {[rid |-> rid, userId |-> userid, deviceId |-> devId, name |-> <<>>,
               date |-> t]}

\* update userToDeviceMap set userId = $1 where userId = $2
MapRekeyNone(tbl, userId, oldUserId) == tbl
MapRekey(tbl, userId, oldUserId) ==
    {IF m.userId = oldUserId THEN [m EXCEPT !.userId = userId] ELSE m : m \in tbl}

Min(a, b) == IF a < b THEN a ELSE b

\* select deviceId, coalesce(name,deviceId) from userToDeviceMap where
\* userId = $1 order by date desc limit $2: the row sequences it may return
MapListOldest(tbl, userId, limit) ==
    LET rows == {m \in tbl : m.userId = userId}
        k == Min(limit, Cardinality(rows))
    IN  {sq \in [1..k -> rows] :
            /\ \A i, j \in 1..k : i < j => (sq[i] # sq[j] /\ sq[i].date <= sq[j].date)
            /\ \A m \in rows : (\A i \in 1..k : sq[i] # m) =>
                                  \A i \in 1..k : sq[i].date <= m.date}
MapList(tbl, userId, limit) ==
    LET rows == {m \in tbl : m.userId = userId}
        k == Min(limit, Cardinality(rows))
    IN  {sq \in [1..k -> rows] :
            /\ \A i, j \in 1..k : i < j => (sq[i] # sq[j] /\ sq[i].date >= sq[j].date)
            /\ \A m \in rows : (\A i \in 1..k : sq[i] # m) =>
                                  \A i \in 1..k : sq[i].date >= m.date}

\* select d.deviceId, u.userId, ... from userToDeviceMap as u, deviceInfo as d
\* where u.deviceId=$1 and u.deviceId=d.deviceId: the joined rows
DeviceJoin(devTbl, mapTbl, devId) ==
    {[d |-> d, u |-> u] : d \in {x \in devTbl : x.deviceId = devId},
                          u \in {x \in mapTbl : x.deviceId = devId}}

\* delete from <table> where deviceid=$1
DeleteRowsNone(tbl, devId) == tbl
DeleteRows(tbl, devId) == {r \in tbl : r.deviceId # devId}

\* ------------------------------------------------------------------ calls
NoPos == [Latitude |-> 0, Longitude |-> 0, Altitude |-> 0, Accuracy |-> 0, Time |-> 0]

\* A Device as a caller fills it in, and as GetDeviceInfo returns it.
NoInfo == [ID |-> <<>>, Name |-> <<>>, HasPasscode |-> FALSE, LoggedIn |-> FALSE,
           Secret |-> <<>>, Accepts |-> <<>>, PushUrl |-> <<>>]
NoDevice == [ID |-> <<>>, User |-> <<>>, Secret |-> <<>>, HasPasscode |-> FALSE,
             LoggedIn |-> FALSE, LastExchange |-> 0, PushUrl |-> <<>>,
             Accepts |-> <<>>, AccessToken |-> <<>>]

NoRet == [op |-> "none", at |-> -1, nonce |-> <<>>, ok |-> FALSE, err |-> "",
          first |-> FALSE, dev |-> <<>>, user |-> <<>>, ctype |-> <<>>,
          cmd |-> <<>>, pos |-> NoPos, positions |-> <<>>, twice |-> FALSE,
          given |-> <<>>, info |-> NoInfo, got |-> NoDevice, old |-> <<>>,
          limit |-> 0, devs |-> <<>>, failed |-> FALSE, failAt |-> 0,
          fault |-> "none", hit |-> FALSE, token |-> <<>>, lock |-> FALSE]

NoProc == [pc |-> "idle", op |-> "none", known |-> FALSE, nonce |-> <<>>, key |-> <<>>, sig |-> <<>>,
           val |-> <<>>, ok |-> FALSE, err |-> "", dev |-> <<>>, ctype |-> <<>>,
           cmd |-> <<>>, row |-> 0, cnt |-> 0, pos |-> NoPos, quiet |-> FALSE,
           user |-> <<>>, old |-> <<>>]

\* A Hawk, the parts of an http.Request the authenticator reads, and an exchange
\* before anything is signed.
NoHawk == [Id |-> <<>>, Time |-> <<>>, Nonce |-> <<>>, Method |-> <<>>, Path |-> <<>>,
           Host |-> <<>>, Port |-> <<>>, Extra |-> <<>>, Hash |-> <<>>,
           Signature |-> <<>>]
NoReq == [Method |-> <<>>, Path |-> <<>>, RawQuery |-> <<>>, Fragment |-> <<>>,
          Host |-> <<>>, Scheme |-> <<>>, ContentType |-> <<>>,
          Authorization |-> <<>>]
NoExchange == [step |-> "init", req |-> NoReq, id |-> <<>>, body |-> <<>>,
               extra |-> <<>>, secret |-> <<>>, override |-> FALSE,
               signer |-> NoHawk, header |-> <<>>,
               vreq |-> NoReq, vbody |-> <<>>, vsecret |-> <<>>, claimed |-> <<>>,
               parsed |-> NoHawk, verifier |-> NoHawk, ok |-> FALSE, err |-> ""]

KeyIds == {GenUUID4(2 * (i - 1)) : i \in 1..MaxNonces}
ValIds == {GenUUID4(2 * (i - 1) + 1) : i \in 1..MaxNonces}

\* What a caller may hand to CheckNonce: every key with the checksum of every
\* value (the issued strings are among them), a string without ".", and a
\* string with a second ".".
NonceInputs ==
    {k \o <<DOT>> \o genSig(k, v) : k \in KeyIds, v \in ValIds}
        \cup {GenUUID4(0)}
        \cup {GenUUID4(0) \o <<DOT>> \o genSig(GenUUID4(0), GenUUID4(1)) \o <<DOT>>}

Init ==
    /\ now = 0
    /\ uuids = 0
    /\ nonce = {}
    /\ pendingCommands = {}
    /\ position = {}
    /\ deviceInfo = {}
    /\ userToDeviceMap = {}
    /\ serial = [pending |-> 0, position |-> 0, device |-> 0, map |-> 0]
    /\ queue = [d \in Devices |-> <<>>]
    /\ ret = NoRet
    /\ issued = {}
    /\ checked = {}
    /\ tampered = {}
    /\ accepted = {}
    /\ proc = [p \in Procs |-> NoProc]
    /\ hawk = NoExchange

Tick ==
    /\ now < MaxTime
    /\ now' = now + 1
    /\ UNCHANGED <<uuids, hawk, nonceVars, storeVars, ret, proc>>

\* ------------------------------------------------------------ nonce store
GetNonce ==
    /\ now < MaxTime
    /\ uuids + 2 <= 2 * MaxNonces
    /\ LET key == GenUUID4(uuids)
           val == GenUUID4(uuids + 1)
           str == key \o <<DOT>> \o genSig(key, val)
       IN  /\ nonce' = nonce \cup {[key |-> key, val |-> val, time |-> now]}
           /\ ret' = [NoRet EXCEPT !.op = "GetNonce", !.at = now, !.nonce = str]
           /\ issued' = issued \cup {[str |-> str, key |-> key, time |-> now]}
    /\ uuids' = uuids + 2
    /\ now' = now + 1
    /\ UNCHANGED <<checked, tampered, accepted, storeVars, proc, hawk>>

\* The history kept of a CheckNonce(n) call that returned ok.
NonceHistory(n, ok) ==
    LET keysig == SplitN2(n, DOT)
    IN  /\ checked' = checked \cup {i.str : i \in {j \in issued : j.str = n}}
        /\ tampered' = tampered \cup
               {i.key : i \in {j \in issued : /\ Len(keysig) = 2
                                              /\ j.key = keysig[1]
                                              /\ j.str # n}}
        /\ accepted' = IF ok THEN accepted \cup {n} ELSE accepted

\* CheckNonce deleting the row only when the signature matches.
CheckNonceKeep(n) ==
    /\ now < MaxTime
    /\ LET purged == NoncePurge(nonce, now)
           keysig == SplitN2(n, DOT)
           done(tbl, ok) ==
               /\ nonce' = tbl
               /\ ret' = [NoRet EXCEPT !.op = "CheckNonce", !.at = now,
                                       !.nonce = n, !.ok = ok,
                                       !.first = (n \notin checked)]
               /\ NonceHistory(n, ok)
       IN  IF Len(keysig) # 2
           THEN done(purged, FALSE)
           ELSE IF NonceSelect(purged, keysig[1]) = {}
           THEN done(purged, FALSE)
           ELSE \E r \in NonceSelect(purged, keysig[1]) :
                    IF genSig(keysig[1], r.val) = keysig[2]
                    THEN done(NonceDelete(purged, keysig[1]), TRUE)
                    ELSE done(purged, FALSE)
    /\ now' = now + 1
    /\ UNCHANGED <<uuids, hawk, issued, storeVars, proc>>

CheckNonce(n) ==
    /\ now < MaxTime
    /\ LET purged == NoncePurge(nonce, now)
           keysig == SplitN2(n, DOT)
           done(tbl, ok) ==
               /\ nonce' = tbl
               /\ ret' = [NoRet EXCEPT !.op = "CheckNonce", !.at = now,
                                       !.nonce = n, !.ok = ok,
                                       !.first = (n \notin checked)]
               /\ NonceHistory(n, ok)
       IN  IF Len(keysig) # 2
           THEN done(purged, FALSE)
           ELSE IF NonceSelect(purged, keysig[1]) = {}
           THEN done(purged, FALSE)
           ELSE \E r \in NonceSelect(purged, keysig[1]) :
                    done(NonceDelete(purged, keysig[1]),
                         genSig(keysig[1], r.val) = keysig[2])
    /\ now' = now + 1
    /\ UNCHANGED <<uuids, hawk, issued, storeVars, proc>>

NextNonce ==
    \/ Tick
    \/ GetNonce
    \/ \E n \in NonceInputs : CheckNonce(n)

SpecNonce == Init /\ [][NextNonce]_vars

\* ------------------------------------------- nonce store, statement by statement
\* Each worker makes one CheckNonce call; the three storage statements of the
\* call (purge, select, delete) are separate steps.  proc[p].known records
\* that the argument had been issued when the call started.

\* lines 734-744: the purge, then the split of the argument
CheckNonceStart(p, n) ==
    /\ proc[p].pc = "idle"
    /\ nonce' = NoncePurge(nonce, now)
    /\ LET keysig == SplitN2(n, DOT)
       IN  proc' = [proc EXCEPT ![p] =
               IF Len(keysig) # 2
               THEN [NoProc EXCEPT !.pc = "done", !.nonce = n, !.ok = FALSE,
                                   !.known = (\E i \in issued : i.str = n)]
               ELSE [NoProc EXCEPT !.pc = "select", !.nonce = n,
                                   !.known = (\E i \in issued : i.str = n),
                                   !.key = keysig[1], !.sig = keysig[2]]]
    /\ UNCHANGED <<now, uuids, hawk, ret, issued, checked, tampered, accepted, storeVars>>

\* lines 745-751 and 762-763: the lookup
CheckNonceLookup(p) ==
    /\ proc[p].pc = "select"
    /\ IF NonceSelect(nonce, proc[p].key) = {}
       THEN proc' = [proc EXCEPT ![p].pc = "done", ![p].ok = FALSE]
       ELSE \E r \in NonceSelect(nonce, proc[p].key) :
                proc' = [proc EXCEPT ![p].pc = "delete", ![p].val = r.val]
    /\ UNCHANGED <<now, uuids, hawk, nonceVars, ret, storeVars>>

\* lines 753-755: the delete, then the comparison
CheckNonceConsume(p) ==
    /\ proc[p].pc = "delete"
    /\ nonce' = NonceDelete(nonce, proc[p].key)
    /\ proc' = [proc EXCEPT ![p].pc = "done",
                            ![p].ok = (genSig(proc[p].key, proc[p].val) = proc[p].sig)]
    /\ UNCHANGED <<now, uuids, hawk, ret, issued, checked, tampered, accepted, storeVars>>

NextNonceConc ==
    \/ Tick
    \/ GetNonce
    \/ \E p \in Procs, n \in NonceInputs : CheckNonceStart(p, n)
    \/ \E p \in Procs : CheckNonceLookup(p)
    \/ \E p \in Procs : CheckNonceConsume(p)

SpecNonceConc == Init /\ [][NextNonceConc]_vars

\* --------------------------------------------------------- device registry
\* A device as RegisterDevice is handed it in the command and position
\* specifications.
DefaultDev(d) == [ID |-> d, Name |-> <<>>, HasPasscode |-> FALSE, LoggedIn |-> FALSE,
                  Secret |-> <<61>>, Accepts |-> <<>>, PushUrl |-> <<>>]

RegisterDevice(userid, dev) ==
    /\ now < MaxCalls
    /\ LET id == IF dev.ID = <<>> THEN GenUUID4(uuids) ELSE dev.ID
           d == [dev EXCEPT !.ID = id]
       IN  /\ uuids' = IF dev.ID = <<>> THEN uuids + 1 ELSE uuids
           /\ IF MapSelect(userToDeviceMap, userid, id) # {}
              THEN /\ deviceInfo' = DeviceUpdate(deviceInfo, d, now)
                   /\ UNCHANGED <<userToDeviceMap, serial>>
              ELSE /\ deviceInfo' = DeviceInsert(deviceInfo, serial.device + 1, d, now)
                   /\ userToDeviceMap' =
                          MapInsert(userToDeviceMap, serial.map + 1, userid, id, now)
                   /\ serial' = [serial EXCEPT !.device = @ + 1, !.map = @ + 1]
           /\ ret' = [NoRet EXCEPT !.op = "RegisterDevice", !.at = now,
                                   !.user = userid, !.dev = id, !.given = dev.ID,
                                   !.info = d]
    /\ now' = now + 1
    /\ UNCHANGED <<nonceVars, pendingCommands, position, queue, proc, hawk>>

\* What db.max_devices_for_user may be configured to; the default is 1.
DeviceLimits == {1, 2}

\* The Device that GetDeviceInfo builds from a joined row.
DeviceOfStored(j) ==
    [ID |-> j.d.deviceId, User |-> j.u.userId, Secret |-> j.d.hawkSecret,
     HasPasscode |-> j.d.lockable, LoggedIn |-> j.d.loggedin,
     LastExchange |-> Float32(j.d.lastExchange), PushUrl |-> j.d.pushUrl,
     Accepts |-> j.d.accepts, AccessToken |-> j.d.accesstoken]
DeviceOf(j) ==
    [ID |-> j.d.deviceId, User |-> j.u.userId, Secret |-> j.d.hawkSecret,
     HasPasscode |-> j.d.lockable, LoggedIn |-> (j.d.pushUrl # <<>>),
     LastExchange |-> Float32(j.d.lastExchange), PushUrl |-> j.d.pushUrl,
     Accepts |-> j.d.accepts, AccessToken |-> j.d.accesstoken]

GetDeviceInfo(devId) ==
    /\ now < MaxCalls
    /\ IF DeviceJoin(deviceInfo, userToDeviceMap, devId) = {}
       THEN ret' = [NoRet EXCEPT !.op = "GetDeviceInfo", !.at = now, !.dev = devId,
                                 !.err = "ErrUnknownDevice"]
       ELSE \E j \in DeviceJoin(deviceInfo, userToDeviceMap, devId) :
                ret' = [NoRet EXCEPT !.op = "GetDeviceInfo", !.at = now, !.dev = devId,
                                     !.got = DeviceOf(j)]
    /\ now' = now + 1
    /\ UNCHANGED <<uuids, hawk, nonceVars, storeVars, proc>>

\* The update of the re-key either succeeds or fails as a whole; after a
\* failure the devices are listed under the old identifier.
GetDevicesForUser(userId, oldUserId, limit) ==
    /\ now < MaxCalls
    /\ \E fail \in BOOLEAN :
          LET rekey == Len(oldUserId) > 0 /\ userId # oldUserId
              tbl == IF rekey /\ ~fail
                     THEN MapRekey(userToDeviceMap, userId, oldUserId)
                     ELSE userToDeviceMap
              lookup == IF rekey /\ fail THEN oldUserId ELSE userId
              k == Min(limit, Cardinality({m \in tbl : m.userId = lookup}))
          IN  /\ fail => rekey
              /\ userToDeviceMap' = tbl
              /\ \E sq \in MapList(tbl, lookup, limit) :
                    ret' = [NoRet EXCEPT !.op = "GetDevicesForUser", !.at = now,
                                !.user = userId, !.old = oldUserId, !.limit = limit,
                                !.failed = fail,
                                !.devs = [i \in 1..k |->
                                             [ID |-> sq[i].deviceId, Name |-> sq[i].name]]]
    /\ now' = now + 1
    /\ UNCHANGED <<uuids, hawk, nonceVars, pendingCommands, position, deviceInfo, serial,
                   queue, proc>>

\* The tables of DeleteDevice, in the order of the loop.
DeleteTablesReversed == <<"deviceinfo", "usertodevicemap", "position", "pendingcommands">>
DeleteTables == <<"pendingcommands", "position", "usertodevicemap", "deviceinfo">>

\* The turn of a table in the loop.
DeleteTurn(table) == CHOOSE k \in 1..Len(DeleteTables) : DeleteTables[k] = table

\* The delete on table failAt fails and ends the loop; 0: none fails.
DeleteDevice(devId) ==
    /\ now < MaxCalls
    /\ \E failAt \in 0..Len(DeleteTables) :
          LET reached(table) == failAt = 0 \/ DeleteTurn(table) < failAt
              after(table, tbl) ==
                  IF reached(table) THEN DeleteRows(tbl, devId) ELSE tbl
          IN  /\ pendingCommands' = after("pendingcommands", pendingCommands)
              /\ position' = after("position", position)
              /\ userToDeviceMap' = after("usertodevicemap", userToDeviceMap)
              /\ deviceInfo' = after("deviceinfo", deviceInfo)
              /\ queue' = IF reached("pendingcommands") /\ devId \in DOMAIN queue
                          THEN [queue EXCEPT ![devId] = <<>>] ELSE queue
              /\ ret' = [NoRet EXCEPT !.op = "DeleteDevice", !.at = now, !.dev = devId,
                                      !.failAt = failAt,
                                      !.err = IF failAt = 0 THEN "" ELSE "storage"]
    /\ now' = now + 1
    /\ UNCHANGED <<uuids, hawk, nonceVars, serial, proc>>

\* Two users; devices as callers fill them in: one with every field off, one
\* logged in without a push URL, one with a push URL and not logged in.
RegUsers == {<<31>>, <<32>>}

Profiles ==
    {[NoInfo EXCEPT !.Secret = <<61>>],
     [NoInfo EXCEPT !.Secret = <<62>>, !.HasPasscode = TRUE, !.LoggedIn = TRUE,
                    !.Accepts = <<81>>],
     [NoInfo EXCEPT !.Secret = <<61>>, !.PushUrl = <<71>>]}

RegInputs ==
    {[user |-> <<31>>, dev |-> [f EXCEPT !.ID = <<21>>]] : f \in Profiles}
        \cup {[user |-> <<31>>, dev |-> DefaultDev(d)] : d \in {<<22>>, <<>>}}
        \cup {[user |-> <<32>>, dev |-> DefaultDev(d)] : d \in Devices}

RekeyInputs ==
    {[new |-> <<32>>, old |-> <<31>>], [new |-> <<31>>, old |-> <<32>>],
     [new |-> <<31>>, old |-> <<>>], [new |-> <<32>>, old |-> <<32>>]}

\* The calls of the registry specification, MaxRegCalls of them in a behaviour.
RegistryRegister(userid, dev) == now < MaxRegCalls /\ RegisterDevice(userid, dev)
RegistryList(userId, oldUserId, limit) ==
    now < MaxRegCalls /\ GetDevicesForUser(userId, oldUserId, limit)
RegistryInfo(devId) == now < MaxRegCalls /\ GetDeviceInfo(devId)
RegistryDelete(devId) == now < MaxRegCalls /\ DeleteDevice(devId)

NextReg ==
    \/ \E i \in RegInputs : RegistryRegister(i.user, i.dev)
    \/ \E i \in RekeyInputs, n \in DeviceLimits : RegistryList(i.new, i.old, n)
    \/ \E d \in Devices : RegistryInfo(d)
    \/ RegistryDelete(<<21>>)

SpecReg == Init /\ [][NextReg]_vars

\* ----------------------------------------------------------- command queue
RemoveType(q, cType) == SelectSeq(q, LAMBDA e : e.ctype # cType)

\* History: the call before this one stored another payload under the same
\* (device, type).
StoredBefore(devId, command, cType) ==
    /\ ret.op = "StoreCommand" /\ ret.dev = devId /\ ret.ctype = cType
    /\ ret.cmd # command

StoreCommand(devId, command, cType) ==
    /\ now < MaxCalls
    /\ IF Cardinality(PendingHits(pendingCommands, devId, cType)) = 0
       THEN /\ pendingCommands' = PendingInsert(pendingCommands, serial.pending + 1,
                                                devId, now, command, cType)
            /\ serial' = [serial EXCEPT !.pending = @ + 1]
       ELSE /\ pendingCommands' =
                   PendingUpdate(pendingCommands, devId, cType, command, now)
            /\ UNCHANGED serial
    /\ queue' = [queue EXCEPT ![devId] =
                    Append(RemoveType(@, cType), [ctype |-> cType, cmd |-> command])]
    /\ ret' = [NoRet EXCEPT !.op = "StoreCommand", !.at = now, !.dev = devId,
                            !.cmd = command, !.ctype = cType,
                            !.twice = StoredBefore(devId, command, cType)]
    /\ now' = now + 1
    /\ UNCHANGED <<uuids, hawk, nonceVars, position, deviceInfo, userToDeviceMap, proc>>

\* History: the call before this one was the second of two StoreCommand calls
\* with the same (device, type) and different payloads, for this device.
AfterStoredTwice(devId) == ret.op = "StoreCommand" /\ ret.twice /\ ret.dev = devId

GetPending(devId) ==
    /\ now < MaxCalls
    /\ IF PendingSelect(pendingCommands, devId) = {}
       THEN /\ UNCHANGED pendingCommands
            /\ ret' = [NoRet EXCEPT !.op = "GetPending", !.at = now, !.dev = devId,
                                    !.twice = AfterStoredTwice(devId)]
       ELSE \E r \in PendingSelect(pendingCommands, devId) :
                /\ pendingCommands' = PendingDelete(pendingCommands, r.id)
                /\ ret' = [NoRet EXCEPT !.op = "GetPending", !.at = now,
                                        !.dev = devId, !.cmd = r.cmd, !.ctype = r.type,
                                        !.twice = AfterStoredTwice(devId)]
    /\ deviceInfo' = Touch(deviceInfo, devId, now)
    /\ queue' = [queue EXCEPT ![devId] = IF @ = <<>> THEN @ ELSE Tail(@)]
    /\ now' = now + 1
    /\ UNCHANGED <<uuids, hawk, nonceVars, position, userToDeviceMap, serial, proc>>

PurgeCommands(devId) ==
    /\ now < MaxCalls
    /\ pendingCommands' = PendingPurge(pendingCommands, devId)
    /\ queue' = [queue EXCEPT ![devId] = <<>>]
    /\ ret' = [NoRet EXCEPT !.op = "PurgeCommands", !.at = now, !.dev = devId]
    /\ now' = now + 1
    /\ UNCHANGED <<uuids, hawk, nonceVars, position, deviceInfo, userToDeviceMap, serial, proc>>

\* Every payload and type for one device, one command for every other.
StoreInputs ==
    {[dev |-> d, cmd |-> c, ctype |-> t] : d \in {<<21>>}, c \in Payloads, t \in CmdTypes}
        \cup {[dev |-> d, cmd |-> <<51>>, ctype |-> <<41>>] : d \in Devices}

NextCmd ==
    \/ \E u \in Users, d \in Devices : RegisterDevice(u, DefaultDev(d))
    \/ \E i \in StoreInputs : StoreCommand(i.dev, i.cmd, i.ctype)
    \/ \E d \in Devices : GetPending(d)
    \/ \E d \in Devices : PurgeCommands(d)

SpecCmd == Init /\ [][NextCmd]_vars

\* --------------------------------------- command queue, statement by statement
\* A worker runs StoreCommand as its update and, when no row was affected, its
\* insert; and GetPending as its select, its delete and the Touch.

\* lines 477-488: the update and the count of the rows it affected
StoreUpdate(p, devId, command, cType) ==
    /\ proc[p].pc \in {"idle", "done"}
    /\ pendingCommands' = PendingUpdate(pendingCommands, devId, cType, command, now)
    /\ LET cnt == Cardinality(PendingHits(pendingCommands, devId, cType))
       IN  proc' = [proc EXCEPT ![p] =
               [NoProc EXCEPT !.op = "StoreCommand", !.dev = devId, !.cmd = command,
                              !.ctype = cType, !.cnt = cnt,
                              !.pc = IF cnt = 0 THEN "insert" ELSE "done"]]
    /\ UNCHANGED <<now, uuids, hawk, nonceVars, position, deviceInfo, userToDeviceMap,
                   serial, queue, ret>>

\* lines 493-503: the insert
StoreInsert(p) ==
    /\ proc[p].pc = "insert"
    /\ serial.pending < MaxRows
    /\ pendingCommands' = PendingInsert(pendingCommands, serial.pending + 1,
                                        proc[p].dev, now, proc[p].cmd, proc[p].ctype)
    /\ serial' = [serial EXCEPT !.pending = @ + 1]
    /\ proc' = [proc EXCEPT ![p].pc = "done"]
    /\ UNCHANGED <<now, uuids, hawk, nonceVars, position, deviceInfo, userToDeviceMap,
                   queue, ret>>

\* lines 383-388: the select
PendingLookup(p, devId) ==
    /\ proc[p].pc \in {"idle", "done"}
    /\ IF PendingSelect(pendingCommands, devId) = {}
       THEN proc' = [proc EXCEPT ![p] =
                [NoProc EXCEPT !.op = "GetPending", !.dev = devId, !.pc = "touch"]]
       ELSE \E r \in PendingSelect(pendingCommands, devId) :
                proc' = [proc EXCEPT ![p] =
                    [NoProc EXCEPT !.op = "GetPending", !.dev = devId, !.row = r.id,
                                   !.cmd = r.cmd, !.ctype = r.type, !.pc = "delete"]]
    /\ UNCHANGED <<now, uuids, hawk, nonceVars, storeVars, ret>>

\* lines 398-399: the delete of the row read
PendingRemove(p) ==
    /\ proc[p].pc = "delete"
    /\ pendingCommands' = PendingDelete(pendingCommands, proc[p].row)
    /\ proc' = [proc EXCEPT ![p].pc = "touch"]
    /\ UNCHANGED <<now, uuids, hawk, nonceVars, position, deviceInfo, userToDeviceMap,
                   serial, queue, ret>>

\* lines 401-402: the Touch, and the return
PendingTouch(p) ==
    /\ proc[p].pc = "touch"
    /\ deviceInfo' = Touch(deviceInfo, proc[p].dev, now)
    /\ proc' = [proc EXCEPT ![p].pc = "done"]
    /\ UNCHANGED <<now, uuids, hawk, nonceVars, pendingCommands, position, userToDeviceMap,
                   serial, queue, ret>>

\* The clock ticks while the workers run.
Elapse ==
    /\ now < MaxSkew
    /\ now' = now + 1
    /\ UNCHANGED <<uuids, hawk, nonceVars, storeVars, ret, proc>>

\* Two payloads under one (device, type), and one under another type.
ConcStoreInputs ==
    {[dev |-> <<21>>, cmd |-> c, ctype |-> <<41>>] : c \in Payloads}
        \cup {[dev |-> <<21>>, cmd |-> <<51>>, ctype |-> <<42>>]}

NextCmdConc ==
    \/ Elapse
    \/ \E p \in Procs, i \in ConcStoreInputs : StoreUpdate(p, i.dev, i.cmd, i.ctype)
    \/ \E p \in Procs : StoreInsert(p)
    \/ \E p \in Procs, d \in Devices : PendingLookup(p, d)
    \/ \E p \in Procs : PendingRemove(p)
    \/ \E p \in Procs : PendingTouch(p)

SpecCmdConc == Init /\ [][NextCmdConc]_vars

\* ------------------------------------------- registry, statement by statement
\* Each worker makes one call: RegisterDevice as its entry, its select and
\* then its update or its two inserts; GetDevicesForUser as its update and its
\* select.  proc[p].known records that the pair was mapped when RegisterDevice
\* was entered.  The statements succeed.

\* lines 224-230: the entry of RegisterDevice, with a device id supplied
RegStart(p, userid, devId) ==
    /\ proc[p].pc = "idle"
    /\ devId # <<>>
    /\ proc' = [proc EXCEPT ![p] =
           [NoProc EXCEPT !.op = "RegisterDevice", !.user = userid, !.dev = devId,
                          !.known = (MapSelect(userToDeviceMap, userid, devId) # {}),
                          !.pc = "select"]]
    /\ UNCHANGED <<now, uuids, hawk, nonceVars, storeVars, ret>>

\* lines 232-233: the select of the mapping
RegLookup(p) ==
    /\ proc[p].pc = "select"
    /\ proc' = [proc EXCEPT ![p].pc =
           IF MapSelect(userToDeviceMap, proc[p].user, proc[p].dev) # {}
           THEN "update" ELSE "insertDevice"]
    /\ UNCHANGED <<now, uuids, hawk, nonceVars, storeVars, ret>>

\* lines 236-251: the update of the device row
RegUpdate(p) ==
    /\ proc[p].pc = "update"
    /\ deviceInfo' = DeviceUpdate(deviceInfo, DefaultDev(proc[p].dev), now)
    /\ proc' = [proc EXCEPT ![p].pc = "done"]
    /\ UNCHANGED <<now, uuids, hawk, nonceVars, pendingCommands, position, userToDeviceMap,
                   serial, queue, ret>>

\* lines 254-269: the insert of the device row
RegInsertDevice(p) ==
    /\ proc[p].pc = "insertDevice"
    /\ serial.device < MaxRows
    /\ deviceInfo' = DeviceInsert(deviceInfo, serial.device + 1,
                                  DefaultDev(proc[p].dev), now)
    /\ serial' = [serial EXCEPT !.device = @ + 1]
    /\ proc' = [proc EXCEPT ![p].pc = "insertMap"]
    /\ UNCHANGED <<now, uuids, hawk, nonceVars, pendingCommands, position, userToDeviceMap,
                   queue, ret>>

\* lines 270-285: the insert of the mapping row
RegInsertMap(p) ==
    /\ proc[p].pc = "insertMap"
    /\ userToDeviceMap' = MapInsert(userToDeviceMap, serial.map + 1, proc[p].user,
                                    proc[p].dev, now)
    /\ serial' = [serial EXCEPT !.map = @ + 1]
    /\ proc' = [proc EXCEPT ![p].pc = "done"]
    /\ UNCHANGED <<now, uuids, hawk, nonceVars, pendingCommands, position, deviceInfo,
                   queue, ret>>

\* lines 428-451: the entry of GetDevicesForUser and the update of the re-key
RekeyUpdate(p, userId, oldUserId) ==
    /\ proc[p].pc = "idle"
    /\ userToDeviceMap' = IF Len(oldUserId) > 0 /\ userId # oldUserId
                          THEN MapRekey(userToDeviceMap, userId, oldUserId)
                          ELSE userToDeviceMap
    /\ proc' = [proc EXCEPT ![p] =
           [NoProc EXCEPT !.op = "GetDevicesForUser", !.user = userId,
                          !.old = oldUserId, !.pc = "list"]]
    /\ UNCHANGED <<now, uuids, hawk, nonceVars, pendingCommands, position, deviceInfo,
                   serial, queue, ret>>

\* lines 452-469: the select of the list, with the default limit
RekeyList(p) ==
    /\ proc[p].pc = "list"
    /\ \E sq \in MapList(userToDeviceMap, proc[p].user, 1) :
          proc' = [proc EXCEPT ![p].pc = "done",
                               ![p].cnt = Min(1, Cardinality({m \in userToDeviceMap :
                                                     m.userId = proc[p].user}))]
    /\ UNCHANGED <<now, uuids, hawk, nonceVars, storeVars, ret>>

\* The registrations made before the workers start.
RegSetup(userid, devId) ==
    /\ \A p \in Procs : proc[p].pc = "idle"
    /\ now < MaxSkew
    /\ RegisterDevice(userid, DefaultDev(devId))

NextRegConc ==
    \/ Elapse
    \/ \E u \in RegUsers, d \in Devices : RegSetup(u, d)
    \/ \E p \in Procs, u \in RegUsers : RegStart(p, u, <<21>>)
    \/ \E p \in Procs : RegLookup(p)
    \/ \E p \in Procs : RegUpdate(p)
    \/ \E p \in Procs : RegInsertDevice(p)
    \/ \E p \in Procs : RegInsertMap(p)
    \/ \E p \in Procs, i \in RekeyInputs : RekeyUpdate(p, i.new, i.old)
    \/ \E p \in Procs : RekeyList(p)

SpecRegConc == Init /\ [][NextRegConc]_vars

\* -------------------------------------------------------- position tracker
\* A float64 that float32 holds exactly, and two that it does not.
Coords == {1, Pow2(F32Mantissa) + 1, Pow2(F32Mantissa) + 3}

PosInputs == {[Latitude |-> a, Longitude |-> b, Altitude |-> 0, Accuracy |-> 1,
               Time |-> 0] : a \in Coords, b \in {2, Pow2(F32Mantissa) + 3}}

SetDeviceLocation(devId, p) ==
    /\ now < MaxTime
    /\ position' = PositionInsert(PurgePosition(position, devId),
                                  serial.position + 1, devId, now, p)
    /\ serial' = [serial EXCEPT !.position = @ + 1]
    /\ ret' = [NoRet EXCEPT !.op = "SetDeviceLocation", !.at = now, !.dev = devId,
                            !.pos = p]
    /\ now' = now + 1
    /\ UNCHANGED <<uuids, hawk, nonceVars, pendingCommands, deviceInfo, userToDeviceMap,
                   queue, proc>>

GetPositions(devId) ==
    /\ now < MaxTime
    /\ IF PositionSelect(position, devId) = {}
       THEN ret' = [NoRet EXCEPT !.op = "GetPositions", !.at = now, !.dev = devId]
       ELSE \E r \in PositionSelect(position, devId) :
                ret' = [NoRet EXCEPT !.op = "GetPositions", !.at = now, !.dev = devId,
                            !.positions = <<[Latitude |-> Float64(r.latitude),
                                             Longitude |-> Float64(r.longitude),
                                             Altitude |-> Float64(r.altitude),
                                             Accuracy |-> Float64(r.accuracy),
                                             Time |-> r.time]>>]
    /\ now' = now + 1
    /\ UNCHANGED <<uuids, hawk, nonceVars, storeVars, proc>>

GcDatabase(devId, userId) ==
    /\ now < MaxTime
    /\ position' = PositionExpire(position, now)
    /\ ret' = [NoRet EXCEPT !.op = "GcDatabase", !.at = now, !.dev = devId,
                            !.user = userId]
    /\ now' = now + 1
    /\ UNCHANGED <<uuids, hawk, nonceVars, pendingCommands, deviceInfo, userToDeviceMap,
                   serial, queue, proc>>

NextPos ==
    \/ Tick
    \/ \E d \in Devices, p \in PosInputs : SetDeviceLocation(d, p)
    \/ \E d \in Devices : GetPositions(d)
    \/ \E d \in Devices, u \in Users : GcDatabase(d, u)

SpecPos == Init /\ [][NextPos]_vars

\* ------------------------------------------------------- cascading delete
\* Devices with a pending command and a position; one of them is deleted and
\* read back.  MaxDelCalls calls in a behaviour.
CascadeRegister(devId) ==
    now < MaxDelCalls /\ RegisterDevice(<<31>>, DefaultDev(devId))
CascadeStore(devId) == now < MaxDelCalls /\ StoreCommand(devId, <<51>>, <<41>>)
CascadeLocate(devId) ==
    now < MaxDelCalls /\ SetDeviceLocation(devId, [NoPos EXCEPT !.Latitude = 1])
CascadeDelete(devId) == now < MaxDelCalls /\ DeleteDevice(devId)
CascadePending(devId) == now < MaxDelCalls /\ GetPending(devId)
CascadePositions(devId) == now < MaxDelCalls /\ GetPositions(devId)
CascadeInfo(devId) == now < MaxDelCalls /\ GetDeviceInfo(devId)

NextDel ==
    \/ \E d \in Devices : CascadeRegister(d)
    \/ \E d \in Devices : CascadeStore(d)
    \/ \E d \in Devices : CascadeLocate(d)
    \/ CascadeDelete(<<21>>)
    \/ CascadePending(<<21>>)
    \/ CascadePositions(<<21>>)
    \/ CascadeInfo(<<21>>)

SpecDel == Init /\ [][NextDel]_vars

\* ------------------------------------- position tracker, statement by statement
\* A worker runs SetDeviceLocation as its purge and its insert, and
\* GetPositions as its one select.  proc[p].quiet records that no other call
\* was in flight when the select ran, proc[p].cnt the row of the device
\* written last at that moment.

\* line 543: the purge
LocPurge(p, devId, pos) ==
    /\ proc[p].pc \in {"idle", "done"}
    /\ position' = PurgePosition(position, devId)
    /\ proc' = [proc EXCEPT ![p] =
           [NoProc EXCEPT !.op = "SetDeviceLocation", !.dev = devId, !.pos = pos,
                          !.pc = "insert"]]
    /\ UNCHANGED <<now, uuids, hawk, nonceVars, pendingCommands, deviceInfo, userToDeviceMap,
                   serial, queue, ret>>

\* lines 545-560: the insert
LocInsert(p) ==
    /\ proc[p].pc = "insert"
    /\ serial.position < MaxRows
    /\ position' = PositionInsert(position, serial.position + 1, proc[p].dev, now,
                                  proc[p].pos)
    /\ serial' = [serial EXCEPT !.position = @ + 1]
    /\ proc' = [proc EXCEPT ![p].pc = "done"]
    /\ UNCHANGED <<now, uuids, hawk, nonceVars, pendingCommands, deviceInfo, userToDeviceMap,
                   queue, ret>>

\* The largest of a set of row ids, 0 for none.
MaxId(ids) == IF ids = {} THEN 0 ELSE CHOOSE i \in ids : \A j \in ids : j <= i

\* lines 343-374: the select of GetPositions
PositionLookup(p, devId) ==
    /\ proc[p].pc \in {"idle", "done"}
    /\ LET quiet == \A q \in Procs \ {p} : proc[q].pc \in {"idle", "done"}
           last == MaxId({r.id : r \in {q \in position : q.deviceId = devId}})
       IN  IF PositionSelect(position, devId) = {}
           THEN proc' = [proc EXCEPT ![p] =
                    [NoProc EXCEPT !.op = "GetPositions", !.dev = devId,
                                   !.quiet = quiet, !.cnt = last, !.pc = "done"]]
           ELSE \E r \in PositionSelect(position, devId) :
                    proc' = [proc EXCEPT ![p] =
                        [NoProc EXCEPT !.op = "GetPositions", !.dev = devId,
                                       !.quiet = quiet, !.cnt = last, !.row = r.id,
                                       !.pos = [Latitude |-> Float64(r.latitude),
                                                Longitude |-> Float64(r.longitude),
                                                Altitude |-> Float64(r.altitude),
                                                Accuracy |-> Float64(r.accuracy),
                                                Time |-> r.time],
                                       !.pc = "done"]]
    /\ UNCHANGED <<now, uuids, hawk, nonceVars, storeVars, ret>>

\* Two positions for one device, one for the other.
ConcPosInputs ==
    {[dev |-> <<21>>, pos |-> [NoPos EXCEPT !.Latitude = a]] : a \in {1, 2}}
        \cup {[dev |-> <<22>>, pos |-> [NoPos EXCEPT !.Latitude = 1]]}

NextPosConc ==
    \/ Elapse
    \/ \E p \in Procs, i \in ConcPosInputs : LocPurge(p, i.dev, i.pos)
    \/ \E p \in Procs : LocInsert(p)
    \/ \E p \in Procs, d \in Devices : PositionLookup(p, d)

SpecPosConc == Init /\ [][NextPosConc]_vars

\* ------------------------------------------------------ failing storage
\* One statement of a call may fail.  A lookup fails in one of three ways:
\* Query returns an error and no Rows ("query"), the first Next returns
\* false because fetching failed ("rows"), or Scan of the row fetched returns
\* an error ("scan").
LookFaults == {"query", "rows", "scan"}
NonceFaults == {"none", "purge", "delete"} \cup LookFaults
PendingFaults == {"none", "delete", "touch"} \cup LookFaults

\* CheckNonce with the statement f failing.  The results of both Exec calls
\* are dropped; after a failed Query the deferred rows.Close() runs on a nil
\* Rows and panics; a Next that returns false ends the loop as for no row.
CheckNonceFail(n, f) ==
    /\ now < MaxFaultCalls
    /\ LET purged == IF f = "purge" THEN nonce ELSE NoncePurge(nonce, now)
           keysig == SplitN2(n, DOT)
           done(tbl, ok, err, fault, hit) ==
               /\ nonce' = tbl
               /\ ret' = [NoRet EXCEPT !.op = "CheckNonce", !.at = now,
                                       !.nonce = n, !.ok = ok, !.err = err,
                                       !.first = (n \notin checked),
                                       !.fault = fault, !.hit = hit]
               /\ NonceHistory(n, ok)
       IN  IF Len(keysig) # 2
           THEN done(purged, FALSE, "", IF f = "purge" THEN f ELSE "none", FALSE)
           ELSE LET found == NonceSelect(purged, keysig[1])
                IN  IF f = "query"
                    THEN done(purged, FALSE, "panic", f, found # {})
                    ELSE IF f = "rows"
                    THEN done(purged, FALSE, "", f, found # {})
                    ELSE IF found = {}
                    THEN done(purged, FALSE, "",
                              IF f = "purge" THEN f ELSE "none", FALSE)
                    ELSE IF f = "scan"
                    THEN done(purged, FALSE, "error", f, TRUE)
                    ELSE \E r \in found :
                             done(IF f = "delete" THEN purged
                                  ELSE NonceDelete(purged, keysig[1]),
                                  genSig(keysig[1], r.val) = keysig[2], "", f, TRUE)
    /\ now' = now + 1
    /\ UNCHANGED <<uuids, hawk, issued, storeVars, proc>>

\* GetPending with the statement f failing.  After a failed Query rows.Next()
\* runs on a nil Rows and panics; a Next that returns false skips the block,
\* and the error of Query is overwritten by the nil returned; the results of
\* the delete and of Touch are dropped.
GetPendingFail(devId, f) ==
    /\ now < MaxFaultCalls
    /\ LET found == PendingSelect(pendingCommands, devId)
           touched == IF f = "touch" THEN deviceInfo
                      ELSE Touch(deviceInfo, devId, now)
           done(tbl, info, r, err, fault) ==
               /\ pendingCommands' = tbl
               /\ deviceInfo' = info
               /\ queue' = [queue EXCEPT ![devId] =
                               IF tbl = pendingCommands \/ @ = <<>> THEN @
                               ELSE Tail(@)]
               /\ ret' = [NoRet EXCEPT !.op = "GetPending", !.at = now,
                                       !.dev = devId, !.cmd = r.cmd,
                                       !.ctype = r.type, !.err = err,
                                       !.fault = fault, !.hit = (found # {})]
           none == [cmd |-> <<>>, type |-> <<>>]
       IN  IF f = "query"
           THEN done(pendingCommands, deviceInfo, none, "panic", f)
           ELSE IF f = "rows"
           THEN done(pendingCommands, touched, none, "", f)
           ELSE IF found = {}
           THEN done(pendingCommands, touched, none, "",
                     IF f = "touch" THEN f ELSE "none")
           ELSE IF f = "scan"
           THEN done(pendingCommands, deviceInfo, none, "error", f)
           ELSE \E r \in found :
                    done(IF f = "delete" THEN pendingCommands
                         ELSE PendingDelete(pendingCommands, r.id),
                         touched, r, "", f)
    /\ now' = now + 1
    /\ UNCHANGED <<uuids, hawk, nonceVars, position, userToDeviceMap, serial, proc>>

FaultIssue == now < MaxFaultCalls /\ GetNonce
FaultRegister(devId) ==
    now < MaxFaultCalls /\ RegisterDevice(<<31>>, DefaultDev(devId))
FaultStore(devId, command, cType) ==
    now < MaxFaultCalls /\ StoreCommand(devId, command, cType)

NextFault ==
    \/ FaultIssue
    \/ \E n \in NonceInputs, f \in NonceFaults : CheckNonceFail(n, f)
    \/ FaultRegister(<<21>>)
    \/ \E c \in Payloads : FaultStore(<<21>>, c, <<41>>)
    \/ \E d \in Devices, f \in PendingFaults : GetPendingFail(d, f)

SpecFault == Init /\ [][NextFault]_vars

\* ---------------------------------------------------------- device record
\* Every call of the store that sends an insert, update or delete,
\* MaxFrameCalls of them in a behaviour.
SetAccessToken(devId, token) ==
    /\ now < MaxFrameCalls
    /\ deviceInfo' = AccessTokenUpdate(deviceInfo, devId, token, now)
    /\ ret' = [NoRet EXCEPT !.op = "SetAccessToken", !.at = now, !.dev = devId,
                            !.token = token]
    /\ now' = now + 1
    /\ UNCHANGED <<uuids, hawk, nonceVars, pendingCommands, position,
                   userToDeviceMap, serial, queue, proc>>

SetDeviceLock(devId, state) ==
    /\ now < MaxFrameCalls
    /\ deviceInfo' = LockUpdate(deviceInfo, devId, state, now)
    /\ ret' = [NoRet EXCEPT !.op = "SetDeviceLock", !.at = now, !.dev = devId,
                            !.lock = state]
    /\ now' = now + 1
    /\ UNCHANGED <<uuids, hawk, nonceVars, pendingCommands, position,
                   userToDeviceMap, serial, queue, proc>>

TouchDevice(devId) ==
    /\ now < MaxFrameCalls
    /\ deviceInfo' = Touch(deviceInfo, devId, now)
    /\ ret' = [NoRet EXCEPT !.op = "Touch", !.at = now, !.dev = devId]
    /\ now' = now + 1
    /\ UNCHANGED <<uuids, hawk, nonceVars, pendingCommands, position,
                   userToDeviceMap, serial, queue, proc>>

\* PurgePosition called on its own.
FramePurgePosition(devId) ==
    /\ now < MaxFrameCalls
    /\ position' = PurgePosition(position, devId)
    /\ ret' = [NoRet EXCEPT !.op = "PurgePosition", !.at = now, !.dev = devId]
    /\ now' = now + 1
    /\ UNCHANGED <<uuids, hawk, nonceVars, pendingCommands, deviceInfo,
                   userToDeviceMap, serial, queue, proc>>

FrameDelete(devId) == now < MaxFrameCalls /\ DeleteDevice(devId)
FrameRegister(userid, dev) == now < MaxFrameCalls /\ RegisterDevice(userid, dev)
FrameStore(devId) == now < MaxFrameCalls /\ StoreCommand(devId, <<51>>, <<41>>)
FramePending(devId) == now < MaxFrameCalls /\ GetPending(devId)
FramePurge(devId) == now < MaxFrameCalls /\ PurgeCommands(devId)
FrameLocate(devId) ==
    now < MaxFrameCalls /\ SetDeviceLocation(devId, [NoPos EXCEPT !.Latitude = 1])
FrameGc(devId, userId) == now < MaxFrameCalls /\ GcDatabase(devId, userId)
FrameList(userId, oldUserId) ==
    now < MaxFrameCalls /\ GetDevicesForUser(userId, oldUserId, MaxDev)
FrameIssue == now < MaxFrameCalls /\ GetNonce
FrameCheck(n) == now < MaxFrameCalls /\ CheckNonce(n)

\* Two secrets for one device, one for the other.
FrameInputs ==
    {[user |-> <<31>>, dev |-> [DefaultDev(<<21>>) EXCEPT !.Secret = k]] :
        k \in {<<61>>, <<62>>}}
        \cup {[user |-> <<31>>, dev |-> DefaultDev(<<22>>)]}

NextFrame ==
    \/ \E i \in FrameInputs : FrameRegister(i.user, i.dev)
    \/ \E d \in Devices : FrameStore(d)
    \/ \E d \in Devices : FramePending(d)
    \/ \E d \in Devices : FramePurge(d)
    \/ \E d \in Devices : SetAccessToken(d, <<91>>)
    \/ \E d \in Devices, b \in BOOLEAN : SetDeviceLock(d, b)
    \/ \E d \in Devices : TouchDevice(d)
    \/ \E d \in Devices : FrameLocate(d)
    \/ \E d \in Devices : FramePurgePosition(d)
    \/ \E d \in Devices : FrameDelete(d)
    \/ FrameGc(<<21>>, <<31>>)
    \/ FrameList(<<32>>, <<31>>)
    \/ FrameIssue
    \/ \E n \in NonceInputs : FrameCheck(n)

SpecFrame == Init /\ [][NextFrame]_vars

\* ================================================================== Hawk
\* The strings of the authenticator are sequences of ASCII codes.
NUL == 0
NL == 10            \* "\n"
SPACE == 32
QUOTE == 34         \* "\""
HASHMARK == 35      \* "#"
COMMA == 44
COLON == 58
SEMI == 59
EQ == 61            \* "="
QMARK == 63         \* "?"
BSL == 92           \* "\\"
LowerN == 110       \* "n"
CaseGap == 32       \* "a" - "A"
DigestBase == 256   \* the characters of a digest lie above the ASCII codes
HmacBlock == 64     \* sha256.BlockSize: the block of the HMAC, in bytes
Sha256Size == 32    \* sha256.Size: the length of a digest, in bytes

StrHawk == <<104, 97, 119, 107>>                            \* "hawk"
StrHeaderTag == <<104, 97, 119, 107, 46, 49, 46, 104, 101, 97, 100, 101, 114>>
StrPayloadTag == <<104, 97, 119, 107, 46, 49, 46, 112, 97, 121, 108, 111, 97, 100>>
StrTextPlain == <<116, 101, 120, 116, 47, 112, 108, 97, 105, 110>>
StrHttps == <<104, 116, 116, 112, 115>>                     \* "https"
Str443 == <<52, 52, 51>>
Str80 == <<56, 48>>
StrId == <<105, 100>>
StrTs == <<116, 115>>
StrNonce == <<110, 111, 110, 99, 101>>
StrExt == <<101, 120, 116>>
StrHash == <<104, 97, 115, 104>>
StrMac == <<109, 97, 99>>

\* strings.ToUpper, strings.ToLower
UpperChar(c) == IF c \in 97..122 THEN c - CaseGap ELSE c
LowerChar(c) == IF c \in 65..90 THEN c + CaseGap ELSE c
ToUpper(s) == [i \in 1..Len(s) |-> UpperChar(s[i])]
ToLower(s) == [i \in 1..Len(s) |-> LowerChar(s[i])]

\* s[i:] and s[:i] of Go, for 0 <= i <= len(s)
From(s, i) == SubSeq(s, i + 1, Len(s))
Upto(s, i) == SubSeq(s, 1, i)

\* strings.Index: the 1-based place of the first sep in s at or after i, or 0
IndexFrom(s, sep, i) ==
    LET hits == {j \in i..(Len(s) - Len(sep) + 1) : SubSeq(s, j, j + Len(sep) - 1) = sep}
    IN  IF hits = {} THEN 0 ELSE CHOOSE j \in hits : \A k \in hits : j <= k

\* strings.Split(s, sep), sep not empty
RECURSIVE Split(_, _)
Split(s, sep) ==
    LET i == IndexFrom(s, sep, 1)
    IN  IF i = 0 THEN <<s>>
        ELSE <<SubSeq(s, 1, i - 1)>> \o Split(SubSeq(s, i + Len(sep), Len(s)), sep)

\* strings.TrimRight(s, c), strings.TrimLeft(s, c), strings.Trim(s, c) for a
\* cutset of one character
RECURSIVE TrimRight(_, _)
TrimRight(s, c) ==
    IF s # <<>> /\ s[Len(s)] = c THEN TrimRight(SubSeq(s, 1, Len(s) - 1), c) ELSE s
RECURSIVE TrimLeft(_, _)
TrimLeft(s, c) == IF s # <<>> /\ Head(s) = c THEN TrimLeft(Tail(s), c) ELSE s
Trim(s, c) == TrimRight(TrimLeft(s, c), c)

\* strings.Replace(s, old, new, -1) for a one-character old
RECURSIVE Replace(_, _, _)
Replace(s, old, new) ==
    IF s = <<>> THEN <<>>
    ELSE (IF Head(s) = old THEN new ELSE <<Head(s)>>) \o Replace(Tail(s), old, new)

\* fmt.Sprintf of "%s\n" for every part
RECURSIVE Lines(_)
Lines(parts) == IF parts = <<>> THEN <<>>
                ELSE Head(parts) \o <<NL>> \o Lines(Tail(parts))

\* A digest is collision free: it spells its input in characters of its own.
Digest(s) == [i \in 1..Len(s) |-> s[i] + DigestBase]

\* base64 of sha256.Sum256(s): 32 bytes, so the text ends in one "="
Sha256B64(s) == Digest(s) \o <<EQ>>

\* The bytes in a string; a digest, however long its input, is Sha256Size bytes.
IsDigest(s) == s # <<>> /\ \A i \in 1..Len(s) : s[i] >= DigestBase
ByteLen(s) == IF IsDigest(s) THEN Sha256Size ELSE Len(s)

\* hmac.New replaces a key longer than the block by its digest, and pads a
\* key shorter than the block with zero bytes
HmacKeyPadded(key) == TrimRight(key, NUL)
HmacKey(key) ==
    TrimRight(IF ByteLen(key) > HmacBlock THEN Digest(key) ELSE key, NUL)

\* base64 of the HMAC-SHA256 of msg under key: 32 bytes again
HmacB64(key, msg) ==
    Digest(<<Len(HmacKey(key))>> \o HmacKey(key) \o msg) \o <<EQ>>

\* get the full path + fragment from the request
getFullPath(req) ==
    req.Path
        \o (IF Len(req.RawQuery) > 0 THEN <<QMARK>> \o req.RawQuery ELSE <<>>)
        \o (IF Len(req.Fragment) > 0 THEN <<HASHMARK>> \o req.Fragment ELSE <<>>)

\* get the host and port from the request; override is the override_port flag
getHostPort(req, override) ==
    LET elements == Split(req.Host, <<COLON>>)
        port == IF Len(elements) = 2 THEN elements[2] ELSE <<>>
    IN  [host |-> elements[1],
         port |-> IF port = <<>> \/ override
                  THEN (IF req.Scheme = StrHttps THEN Str443 ELSE Str80)
                  ELSE port]

genHash(req, body) ==
    LET contentType == IF req.ContentType = <<>> THEN StrTextPlain
                       ELSE req.ContentType
        nbody == Replace(Replace(body, BSL, <<BSL, BSL>>), NL, <<BSL, LowerN>>)
    IN  Sha256B64(Lines(<<StrPayloadTag, Split(contentType, <<SEMI>>)[1], nbody>>))

\* The Hawk after GenerateSignature; rnd is what GenNonce returns, t the
\* time of the clock as a string.
GenerateSignature(h, req, extra, body, secret, rnd, t, override) ==
    LET hp == getHostPort(req, override)
        h1 == [h EXCEPT
                 !.Path = IF @ = <<>> THEN getFullPath(req) ELSE @,
                 !.Host = IF h.Host = <<>> THEN hp.host ELSE @,
                 !.Port = IF h.Host = <<>> THEN hp.port ELSE @,
                 !.Nonce = IF @ = <<>> THEN rnd ELSE @,
                 !.Time = IF @ = <<>> THEN t ELSE @,
                 !.Method = IF @ = <<>> THEN ToUpper(req.Method) ELSE @,
                 !.Hash = IF @ = <<>> THEN genHash(req, body) ELSE @]
        marshalStr == Lines(<<StrHeaderTag, h1.Time, h1.Nonce, ToUpper(h1.Method),
                              h1.Path, ToLower(h1.Host), h1.Port, h1.Hash, extra>>)
    IN  [h1 EXCEPT !.Signature = HmacB64(secret, marshalStr)]

\* key="value"
Pair(key, val) == key \o <<EQ, QUOTE>> \o val \o <<QUOTE>>

\* The Hawk after AsHeader, and the header it returns.
AsHeader(h, req, id, body, extra, secret, rnd, t, override) ==
    LET h1 == IF h.Signature = <<>>
              THEN GenerateSignature(h, req, extra, body, secret, rnd, t, override)
              ELSE h
    IN  [h |-> h1,
         header |-> <<72, 97, 119, 107, SPACE>>
                    \o Pair(StrId, id) \o <<COMMA, SPACE>>
                    \o Pair(StrTs, h1.Time) \o <<COMMA, SPACE>>
                    \o Pair(StrNonce, h1.Nonce) \o <<SPACE>>
                    \o Pair(StrExt, h1.Extra) \o <<COMMA, SPACE>>
                    \o Pair(StrHash, h1.Hash) \o <<SPACE>>
                    \o Pair(StrMac, h1.Signature)]

\* The loop of ParseAuthHeader over the elements of the header.
RECURSIVE ParseElements(_, _)
ParseElements(h, elements) ==
    IF elements = <<>> THEN h
    ELSE LET kv == SplitN2(Head(elements), EQ)
             val == Trim(kv[2], QUOTE)
             key == ToLower(kv[1])
             h1 == IF Len(kv) < 2 THEN h
                   ELSE IF key = StrId THEN [h EXCEPT !.Id = val]
                   ELSE IF key = StrTs THEN [h EXCEPT !.Time = val]
                   ELSE IF key = StrNonce THEN [h EXCEPT !.Nonce = val]
                   ELSE IF key = StrExt THEN [h EXCEPT !.Extra = val]
                   ELSE IF key = StrHash THEN [h EXCEPT !.Hash = val]
                   ELSE IF key = StrMac THEN [h EXCEPT !.Signature = val]
                   ELSE h
         IN  ParseElements(h1, Tail(elements))

\* The Hawk after ParseAuthHeader and the error returned; "panic" when a
\* slice expression is out of range.
ParseAuthHeader(h, req, override) ==
    LET auth == req.Authorization
        hp == getHostPort(req, override)
    IN  IF auth = <<>> THEN [h |-> h, err |-> "ErrNoAuth"]
        ELSE IF Len(auth) < 4 THEN [h |-> h, err |-> "panic"]
        ELSE IF ToLower(Upto(auth, 4)) # StrHawk THEN [h |-> h, err |-> "ErrNotHawkAuth"]
        ELSE IF Len(auth) < 5 THEN [h |-> h, err |-> "panic"]
        ELSE [h |-> [ParseElements(h, Split(From(auth, 5), <<COMMA, SPACE>>))
                        EXCEPT !.Path = getFullPath(req),
                               !.Host = hp.host, !.Port = hp.port],
              err |-> ""]

\* Compare a signature value against the generated Signature.
Compare(h, sig) == TrimRight(sig, EQ) = TrimRight(h.Signature, EQ)

\* ------------------------------------------------------------ the exchange
\* A request is signed once; then either a verifier recomputes the MAC from
\* request values, timestamp and nonce handed to it and compares a claimed
\* MAC, or a receiver parses an Authorization header, recomputes and compares.
Methods == {<<103, 101, 116>>, <<80, 79, 83, 84>>}             \* "get", "POST"
Paths == {<<47, 97>>, <<47, 98>>}                              \* "/a", "/b"
HostSchemes == {[Host |-> <<104>>, Scheme |-> StrHttps],      \* "h"
                [Host |-> <<72, 58, 56, 49>>, Scheme |-> <<104, 116, 116, 112>>]}
ContentTypes == {<<>>, <<97, 59, 98>>}                         \* "", "a;b"
Bodies == {<<120>>, <<120, NL, BSL>>}                          \* "x", "x\n\\"
Extras == {<<>>, <<101>>}                                      \* "", "e"
\* A secret as long as the block of the HMAC, and the same with a zero byte.
Secret64 == [i \in 1..HmacBlock |-> 115]
Secret65 == Secret64 \o <<NUL>>
\* "s", "s\0", "t", the two long secrets and the digest of the longer one
Secrets == {<<115>>, <<115, NUL>>, <<116>>, Secret64, Secret65, Digest(Secret65)}
HawkId == <<100>>                                              \* "d"
HawkNonce == <<110, 49>>                                       \* "n1"
HawkTime == <<49, 55>>                                         \* "17"

SignInputs ==
    {[req |-> [NoReq EXCEPT !.Method = m, !.Path = p, !.Host = hs.Host,
                            !.Scheme = hs.Scheme, !.ContentType = ct],
      body |-> b, extra |-> e, secret |-> k, override |-> o] :
        m \in Methods, p \in Paths, hs \in HostSchemes, ct \in ContentTypes,
        b \in Bodies, e \in Extras, k \in Secrets, o \in BOOLEAN}

\* AsHeader on a new Hawk.
Sign(i) ==
    /\ hawk.step = "init"
    /\ LET r == AsHeader(NoHawk, i.req, HawkId, i.body, i.extra, i.secret,
                         HawkNonce, HawkTime, i.override)
       IN  hawk' = [NoExchange EXCEPT !.step = "signed", !.req = i.req,
                       !.id = HawkId, !.body = i.body, !.extra = i.extra,
                       !.secret = i.secret, !.override = i.override,
                       !.signer = r.h, !.header = r.header]
    /\ UNCHANGED <<now, uuids, nonceVars, storeVars, ret, proc>>

\* What a claimed MAC may be: the MAC of the signer, that MAC without its
\* padding, with one more "=", and with its first character changed.
ClaimKinds == {"same", "unpadded", "padded", "flipped"}
ClaimedMac(mac, kind) ==
    IF kind = "same" THEN mac
    ELSE IF kind = "unpadded" THEN TrimRight(mac, EQ)
    ELSE IF kind = "padded" THEN mac \o <<EQ>>
    ELSE <<mac[1] + 1>> \o Tail(mac)

\* GenerateSignature on a Hawk holding the timestamp and the nonce of the
\* signer, then Compare with the claimed MAC.
Recompute(path, secret, kind) ==
    /\ hawk.step = "signed"
    /\ LET vreq == [hawk.req EXCEPT !.Path = path]
           claimed == ClaimedMac(hawk.signer.Signature, kind)
           v == GenerateSignature([NoHawk EXCEPT !.Time = hawk.signer.Time,
                                                 !.Nonce = hawk.signer.Nonce],
                                  vreq, hawk.extra, hawk.body, secret,
                                  HawkNonce, HawkTime, hawk.override)
       IN  hawk' = [hawk EXCEPT !.step = "recomputed", !.vreq = vreq,
                       !.vbody = hawk.body, !.vsecret = secret,
                       !.claimed = claimed, !.verifier = v,
                       !.ok = Compare(v, claimed)]
    /\ UNCHANGED <<now, uuids, nonceVars, storeVars, ret, proc>>

\* The Authorization header of section 6 with the fields of a Hawk.
WireHeader(h, id) ==
    <<72, 97, 119, 107, SPACE>>
        \o Pair(StrId, id) \o <<COMMA, SPACE>>
        \o Pair(StrTs, h.Time) \o <<COMMA, SPACE>>
        \o Pair(StrNonce, h.Nonce) \o <<COMMA, SPACE>>
        \o Pair(StrExt, h.Extra) \o <<COMMA, SPACE>>
        \o Pair(StrHash, h.Hash) \o <<COMMA, SPACE>>
        \o Pair(StrMac, h.Signature)

\* The headers a receiver may get for the request signed: the one AsHeader
\* returned, the well-formed one with the same fields and the extra string
\* of the signature, none, and some that are not Hawk headers.
HeaderKinds == {"rendered", "wire", "none", "short", "scheme", "basic"}
HeaderOf(kind) ==
    IF kind = "rendered" THEN hawk.header
    ELSE IF kind = "wire"
    THEN WireHeader([hawk.signer EXCEPT !.Extra = hawk.extra], hawk.id)
    ELSE IF kind = "none" THEN <<>>
    ELSE IF kind = "short" THEN <<104, 97>>                     \* "ha"
    ELSE IF kind = "scheme" THEN StrHawk
    ELSE <<66, 97, 115, 105, 99, SPACE, 120>>                  \* "Basic x"

\* ParseAuthHeader on a new Hawk, GenerateSignature with the body received and
\* the extra string parsed, and Compare with the MAC parsed.
Verify(kind, body) ==
    /\ hawk.step = "signed"
    /\ LET vreq == [hawk.req EXCEPT !.Authorization = HeaderOf(kind)]
           r == ParseAuthHeader(NoHawk, vreq, hawk.override)
           v == GenerateSignature(r.h, vreq, r.h.Extra, body, hawk.secret,
                                  HawkNonce, HawkTime, hawk.override)
       IN  hawk' = IF r.err # ""
                   THEN [hawk EXCEPT !.step = "verified", !.vreq = vreq,
                            !.vbody = body, !.vsecret = hawk.secret,
                            !.parsed = r.h, !.verifier = r.h, !.err = r.err]
                   ELSE [hawk EXCEPT !.step = "verified", !.vreq = vreq,
                            !.vbody = body, !.vsecret = hawk.secret,
                            !.parsed = r.h,
                            !.claimed = r.h.Signature, !.verifier = v,
                            !.ok = Compare(v, r.h.Signature)]
    /\ UNCHANGED <<now, uuids, nonceVars, storeVars, ret, proc>>

NextHawk ==
    \/ \E i \in SignInputs : Sign(i)
    \/ \E p \in Paths, k \in Secrets, c \in ClaimKinds : Recompute(p, k, c)
    \/ \E h \in HeaderKinds, b \in Bodies : Verify(h, b)

SpecHawk == Init /\ [][NextHawk]_vars

Spec == SpecNonce

\* ================================================================= claims
\* The step just taken is a CheckNonce(n) call.
DidCheck(n) == ret'.op = "CheckNonce" /\ ret'.at = now /\ ret'.nonce = n

\* The issued nonce i is older than the window at time t.
ExpiredAt(i, t) == i.time < t - NonceTTL

\* C1 as stated: for every issued nonce string, in any sequence of
\* GetNonce/CheckNonce calls in which it does not expire, the first CheckNonce
\* with that string returns true and every later one returns (false, no error).
C1_Original ==
    [][\A i \in issued :
         (DidCheck(i.str) /\ ~ExpiredAt(i, now)) =>
             (ret'.err = "" /\ ret'.ok = (i.str \notin checked))]_vars

\* C1 amended: every CheckNonce with an issued string returns no error; a later
\* CheckNonce with the same string returns false; the first one returns true
\* when the nonce has not expired and no earlier CheckNonce since its issue
\* named its key with another string.
C1_SingleUse ==
    [][\A i \in issued :
         DidCheck(i.str) =>
             /\ ret'.err = ""
             /\ (i.str \in checked => ~ret'.ok)
             /\ (/\ i.str \notin checked
                 /\ i.key \notin tampered
                 /\ ~ExpiredAt(i, now)) => ret'.ok]_vars

\* A nonce accepted once is checked again within its window and rejected.
C1_Witness ==
    \E i \in issued :
        /\ i.str \in accepted
        /\ ret.op = "CheckNonce" /\ ret.nonce = i.str
        /\ ~ret.first /\ ~ret.ok /\ ret.err = ""
        /\ ~ExpiredAt(i, ret.at)

\* C2: when two or more CheckNonce calls for the same issued nonce string run
\* concurrently, interleaved between their storage statements, exactly one of
\* them returns true and all the others return false (the calls start after
\* the issue, the nonce has not expired, no call names its key otherwise).
C2_ExactlyOne ==
    \A i \in issued :
        LET callers == {p \in Procs : /\ proc[p].pc # "idle"
                                      /\ proc[p].nonce = i.str
                                      /\ proc[p].known}
            others == {p \in Procs : proc[p].pc # "idle" /\ proc[p].key = i.key
                                       /\ proc[p].nonce # i.str}
        IN  (/\ Cardinality(callers) >= 2
             /\ \A p \in callers : proc[p].pc = "done"
             /\ others = {}
             /\ ~ExpiredAt(i, now))
            => Cardinality({p \in callers : proc[p].ok}) = 1

\* C3: a nonce issued more than 5 minutes before a CheckNonce call is rejected
\* by it with (false, no error) even if never checked before, the result a key
\* never issued gets; no expired row is left by the purge of any CheckNonce.
C3_Expiry ==
    [][/\ \A i \in issued :
            (DidCheck(i.str) /\ ExpiredAt(i, now)) =>
                (~ret'.ok /\ ret'.err = "" /\ \A r \in nonce' : r.key # i.key)
       /\ \A n \in NonceInputs :
            DidCheck(n) =>
                /\ \A r \in nonce' : ~(r.time < now - NonceTTL)
                /\ (\A i \in issued : i.key # SplitN2(n, DOT)[1])
                       => (~ret'.ok /\ ret'.err = "")]_vars

\* An issued nonce, never checked and never tampered with, is rejected on its
\* first check because it is too old, and its row is gone.
C3_Witness ==
    \E i \in issued :
        /\ ret.op = "CheckNonce" /\ ret.nonce = i.str /\ ret.first
        /\ i.key \notin tampered
        /\ ExpiredAt(i, ret.at)
        /\ ~ret.ok /\ ret.err = ""
        /\ \A r \in nonce : r.key # i.key

\* C4: a CheckNonce whose key matches a stored nonce but whose signature
\* suffix is wrong returns false and deletes the row, so a later CheckNonce
\* with the correct string for that key also returns false.
C4_Destructive ==
    [][/\ \A n \in NonceInputs :
            (DidCheck(n) /\ Len(SplitN2(n, DOT)) = 2) =>
                \A r \in nonce :
                    (/\ r.key = SplitN2(n, DOT)[1]
                     /\ ~(r.time < now - NonceTTL)
                     /\ genSig(r.key, r.val) # SplitN2(n, DOT)[2])
                    => (~ret'.ok /\ \A q \in nonce' : q.key # r.key)
       /\ \A i \in issued :
            (DidCheck(i.str) /\ i.key \in tampered) => ~ret'.ok]_vars

\* The correct string is checked for the first time, within its window, after
\* a call with the same key and a wrong suffix, and is rejected.
C4_Witness ==
    \E i \in issued :
        /\ i.key \in tampered
        /\ ret.op = "CheckNonce" /\ ret.nonce = i.str /\ ret.first
        /\ ~ExpiredAt(i, ret.at)
        /\ ~ret.ok

\* C5: CheckNonce removes only the row of its own key and the expired rows,
\* so of two unexpired issued nonces the second one checked is accepted after
\* the first one was, whichever was issued first.
C5_Independent ==
    [][/\ \A n \in NonceInputs :
            DidCheck(n) =>
                nonce' = {r \in nonce :
                            /\ ~(r.time < now - NonceTTL)
                            /\ Len(SplitN2(n, DOT)) = 2 => r.key # SplitN2(n, DOT)[1]}
       /\ \A i1, i2 \in issued :
            (/\ i1 # i2
             /\ ret.op = "CheckNonce" /\ ret.nonce = i1.str /\ ret.ok
             /\ DidCheck(i2.str)
             /\ i2.str \notin checked /\ i2.key \notin tampered
             /\ ~ExpiredAt(i2, now))
            => ret'.ok]_vars

\* Two nonces checked in the reverse of their order of issue, both accepted.
C5_Witness ==
    \E i1, i2 \in issued :
        /\ i1.time < i2.time
        /\ i2.str \in accepted
        /\ ret.op = "CheckNonce" /\ ret.nonce = i1.str /\ ret.ok

\* The step just taken is a call of op.
Did(op) == ret'.op = op /\ ret'.at = now

\* The pending rows of a (device, type), and those of a device.
RowsOfKey(tbl, devId, cType) == {r \in tbl : r.deviceId = devId /\ r.type = cType}
RowsOfDevice(tbl, devId) == {r \in tbl : r.deviceId = devId}

\* C6 as stated: two StoreCommand calls with the same (device, type) and
\* different payloads, run one after the other, leave exactly one pending row
\* for that key holding the second payload; the next GetPending for the device
\* returns that payload and type and leaves zero pending rows for the key.
C6_Original ==
    [][/\ (Did("StoreCommand") /\ ret'.twice) =>
            \E r \in pendingCommands' :
                /\ RowsOfKey(pendingCommands', ret'.dev, ret'.ctype) = {r}
                /\ r.cmd = ret'.cmd
       /\ (Did("GetPending") /\ ret'.twice) =>
            /\ ret'.cmd = ret.cmd /\ ret'.ctype = ret.ctype /\ ret'.err = ""
            /\ RowsOfKey(pendingCommands', ret.dev, ret.ctype) = {}]_vars

\* C6 amended: two StoreCommand calls with the same (device, type) and
\* different payloads, run one after the other, leave exactly one pending row
\* for that key holding the second payload; the next GetPending for the
\* device, when the device has no pending command of another type, returns
\* that payload and type and leaves zero pending rows for the key.
C6_Replace ==
    [][/\ (Did("StoreCommand") /\ ret'.twice) =>
            \E r \in pendingCommands' :
                /\ RowsOfKey(pendingCommands', ret'.dev, ret'.ctype) = {r}
                /\ r.cmd = ret'.cmd
       /\ (/\ Did("GetPending") /\ ret'.twice
           /\ \A r \in RowsOfDevice(pendingCommands, ret.dev) : r.type = ret.ctype) =>
            /\ ret'.cmd = ret.cmd /\ ret'.ctype = ret.ctype /\ ret'.err = ""
            /\ RowsOfKey(pendingCommands', ret.dev, ret.ctype) = {}]_vars

\* GetPending, right after a key was stored twice, has returned a payload and
\* left the device without pending rows.
C6_Witness ==
    /\ ret.op = "GetPending" /\ ret.twice
    /\ ret.cmd \in Payloads /\ ret.ctype \in CmdTypes
    /\ RowsOfDevice(pendingCommands, ret.dev) = {}
    /\ serial.pending = 1

\* C7: at most one pending command row exists per (device, type) in every
\* reachable state, also when StoreCommand calls for the same key interleave
\* between the update and the insert.
C7_OneRowPerKey ==
    \A r, q \in pendingCommands :
        (r.deviceId = q.deviceId /\ r.type = q.type) => r = q

\* C8: two GetPending calls for the same device, interleaved between the
\* select and the delete, never both return the same pending command row.
C8_NoDoubleDelivery ==
    \A p, q \in Procs :
        (/\ p # q
         /\ proc[p].op = "GetPending" /\ proc[p].pc \in {"touch", "done"}
         /\ proc[q].op = "GetPending" /\ proc[q].pc \in {"touch", "done"}
         /\ proc[p].row # 0)
        => proc[p].row # proc[q].row

\* C9: GetPending returns the pending command of the device with the smallest
\* enqueue time across all types (StoreCommand on an existing key resets its
\* time to now), deletes exactly that row and refreshes the device's
\* lastExchange; with nothing pending it returns an empty command and type, no
\* error, and still refreshes lastExchange.  Hence the commands are returned
\* in the order of their last store, one per call, and then empty.
C9_DeliveryOrder ==
    [][/\ Did("GetPending") =>
            /\ ret'.err = ""
            /\ IF RowsOfDevice(pendingCommands, ret'.dev) = {}
               THEN /\ ret'.cmd = <<>> /\ ret'.ctype = <<>>
                    /\ pendingCommands' = pendingCommands
               ELSE \E r \in RowsOfDevice(pendingCommands, ret'.dev) :
                        /\ \A q \in RowsOfDevice(pendingCommands, ret'.dev) :
                               r.time <= q.time
                        /\ ret'.cmd = r.cmd /\ ret'.ctype = r.type
                        /\ pendingCommands' = pendingCommands \ {r}
            /\ \A i \in deviceInfo' : i.deviceId = ret'.dev => i.lastExchange = now
            /\ {i.rid : i \in deviceInfo'} = {i.rid : i \in deviceInfo}
            /\ \A i \in deviceInfo : i.deviceId # ret'.dev => i \in deviceInfo'
            /\ IF queue[ret'.dev] = <<>>
               THEN ret'.cmd = <<>> /\ ret'.ctype = <<>>
               ELSE /\ ret'.cmd = Head(queue[ret'.dev]).cmd
                    /\ ret'.ctype = Head(queue[ret'.dev]).ctype
       /\ Did("StoreCommand") =>
            \A r \in RowsOfKey(pendingCommands', ret'.dev, ret'.ctype) : r.time = now]_vars

\* With two types pending for a registered device, GetPending has returned the
\* one stored first, left the other and refreshed lastExchange.
C9_Witness ==
    /\ ret.op = "GetPending" /\ ret.cmd # <<>>
    /\ Len(queue[ret.dev]) = 1
    /\ \E r \in pendingCommands :
          /\ RowsOfDevice(pendingCommands, ret.dev) = {r}
          /\ r.type # ret.ctype
          /\ r.type = queue[ret.dev][1].ctype
    /\ \E i \in deviceInfo : i.deviceId = ret.dev /\ i.lastExchange = ret.at

\* The coordinates of a position row and of a returned position.
RowCoords(r) == <<r.latitude, r.longitude, r.altitude, r.accuracy>>
PosCoords(p) == <<p.Latitude, p.Longitude, p.Altitude, p.Accuracy>>
Rounded(p) == <<Float32(p.Latitude), Float32(p.Longitude), Float32(p.Altitude),
                Float32(p.Accuracy)>>

\* C10 as stated: after SetDeviceLocation calls for a device run one after the
\* other, exactly one position row exists for the device and it holds the
\* coordinates of the last call; GetPositions then returns a one-element
\* collection with those coordinates.
C10_Original ==
    [][/\ Did("SetDeviceLocation") =>
            \E r \in position' :
                /\ RowsOfDevice(position', ret'.dev) = {r}
                /\ RowCoords(r) = PosCoords(ret'.pos)
       /\ (/\ ret.op = "SetDeviceLocation" /\ Did("GetPositions")
           /\ ret'.dev = ret.dev) =>
            /\ Len(ret'.positions) = 1
            /\ PosCoords(ret'.positions[1]) = PosCoords(ret.pos)]_vars

\* C10 amended: ... it holds the coordinates of the last call rounded to
\* single precision; GetPositions then returns a one-element collection with
\* those rounded coordinates.
C10_LatestOnly ==
    [][/\ Did("SetDeviceLocation") =>
            \E r \in position' :
                /\ RowsOfDevice(position', ret'.dev) = {r}
                /\ RowCoords(r) = Rounded(ret'.pos)
                /\ \A q \in position : q.deviceId # ret'.dev => q \in position'
       /\ (/\ ret.op = "SetDeviceLocation" /\ Did("GetPositions")
           /\ ret'.dev = ret.dev) =>
            /\ Len(ret'.positions) = 1
            /\ PosCoords(ret'.positions[1]) = Rounded(ret.pos)]_vars

\* A second SetDeviceLocation for a device, with coordinates that single
\* precision does not hold, has left one row.
C10_Witness ==
    /\ ret.op = "SetDeviceLocation"
    /\ serial.position >= 2
    /\ \E r \in position :
          /\ RowsOfDevice(position, ret.dev) = {r}
          /\ r.id >= 2
          /\ RowCoords(r) = Rounded(ret.pos)
          /\ RowCoords(r) # PosCoords(ret.pos)

\* C11: in every state reached after all in-flight calls complete at most one
\* position row is retained per device, also when two SetDeviceLocation
\* calls for the same device interleave between their purge and their
\* insert; and GetPositions then returns the most recently written position.
C11_OnePosition ==
    (\A p \in Procs : proc[p].pc \in {"idle", "done"}) =>
        /\ \A d \in Devices : Cardinality(RowsOfDevice(position, d)) <= 1
        /\ \A p \in Procs :
              (proc[p].op = "GetPositions" /\ proc[p].quiet) =>
                  proc[p].row = proc[p].cnt

\* The mapping rows of a user.
RowsOfUser(tbl, userId) == {m \in tbl : m.userId = userId}

\* C12: RegisterDevice called twice, one after the other, with the same user
\* and the same non-empty device id returns that id both times, leaves exactly
\* one mapping row and one device row for the pair, and the device row holds
\* the lockable flag, secret, accepted types and push URL of the second call.
C12_Reregister ==
    [][(/\ Did("RegisterDevice") /\ ret.op = "RegisterDevice"
        /\ ret'.user = ret.user /\ ret'.given = ret.given /\ ret.given # <<>>) =>
           /\ ret.dev = ret.given /\ ret'.dev = ret.given /\ ret'.err = ""
           /\ Cardinality(MapSelect(userToDeviceMap', ret'.user, ret'.dev)) = 1
           /\ \E r \in deviceInfo' :
                 /\ RowsOfDevice(deviceInfo', ret'.dev) = {r}
                 /\ r.lockable = ret'.info.HasPasscode
                 /\ r.hawkSecret = ret'.info.Secret
                 /\ r.accepts = ret'.info.Accepts
                 /\ r.pushUrl = ret'.info.PushUrl]_vars

\* C13: in every state reachable by RegisterDevice calls, the number of
\* mapping rows held by any one user is at most the configured maximum
\* (by default 1).
C13_DeviceCap ==
    \A u \in RegUsers : Cardinality(RowsOfUser(userToDeviceMap, u)) <= MaxDev

\* The identifier the list of a GetDevicesForUser call was selected under:
\* the queried user, or the old identifier after a failed re-key.
Queried(r) == IF r.failed THEN r.old ELSE r.user

\* C14: GetDevicesForUser returns at most the configured limit of devices,
\* all of them mapped to the queried user, most recently associated first;
\* when the user holds more mappings than the limit, exactly the most
\* recently associated ones are returned.
C14_CappedList ==
    [][Did("GetDevicesForUser") =>
         LET rows == RowsOfUser(userToDeviceMap', Queried(ret'))
             n == Len(ret'.devs)
         IN  /\ ret'.err = ""
             /\ n <= ret'.limit
             /\ n = Min(ret'.limit, Cardinality(rows))
             /\ \E sq \in [1..n -> rows] :
                   /\ \A i \in 1..n : ret'.devs[i].ID = sq[i].deviceId
                   /\ \A i, j \in 1..n : i < j => sq[i].date > sq[j].date
                   /\ \A m \in rows : \A i \in 1..n :
                          m.date > sq[i].date => \E j \in 1..n : sq[j] = m]_vars

\* A user with more mappings than the limit of 2 was listed: two devices
\* came back, and a third one, associated earlier, did not.
C14_Witness ==
    /\ ret.op = "GetDevicesForUser" /\ ret.limit = 2 /\ Len(ret.devs) = 2
    /\ ret.devs[1].ID # ret.devs[2].ID
    /\ \E m \in RowsOfUser(userToDeviceMap, Queried(ret)) :
          /\ m.deviceId # ret.devs[1].ID /\ m.deviceId # ret.devs[2].ID
          /\ \A q \in RowsOfUser(userToDeviceMap, Queried(ret)) : m.date <= q.date

\* C15: after GetDevicesForUser(new, old) with a non-empty old id different
\* from new and a successful update, no mapping row remains under old, every
\* mapping formerly under old is under new with its device id unchanged, and
\* the list is drawn from the mappings of new; when old is empty or equal to
\* new no mapping is changed; when the update fails the call lists the
\* devices under old instead of failing.
C15_Rekey ==
    [][Did("GetDevicesForUser") =>
         LET rekey == ret'.old # <<>> /\ ret'.old # ret'.user
             listed(u) == \A i \in 1..Len(ret'.devs) :
                              \E m \in RowsOfUser(userToDeviceMap', u) :
                                  m.deviceId = ret'.devs[i].ID
         IN  /\ (rekey /\ ~ret'.failed) =>
                   /\ RowsOfUser(userToDeviceMap', ret'.old) = {}
                   /\ \A m \in userToDeviceMap :
                         IF m.userId = ret'.old
                         THEN [m EXCEPT !.userId = ret'.user] \in userToDeviceMap'
                         ELSE m \in userToDeviceMap'
                   /\ {m.rid : m \in userToDeviceMap'} = {m.rid : m \in userToDeviceMap}
                   /\ listed(ret'.user)
             /\ ~rekey => (userToDeviceMap' = userToDeviceMap /\ ~ret'.failed)
             /\ (rekey /\ ret'.failed) =>
                   /\ userToDeviceMap' = userToDeviceMap
                   /\ ret'.err = ""
                   /\ listed(ret'.old)
                   /\ Len(ret'.devs) = Min(ret'.limit,
                          Cardinality(RowsOfUser(userToDeviceMap, ret'.old)))]_vars

\* The device with the generated id, which only user <<31>> registers, has
\* been re-keyed to user <<32>> and is in the list returned.
C15_Witness ==
    /\ ret.op = "GetDevicesForUser" /\ ret.user = <<32>> /\ ret.old = <<31>>
    /\ ~ret.failed
    /\ \E i \in 1..Len(ret.devs) : ret.devs[i].ID = GenUUID4(0)
    /\ \E m \in userToDeviceMap : m.deviceId = GenUUID4(0) /\ m.userId = <<32>>
    /\ RowsOfUser(userToDeviceMap, <<31>>) = {}

\* C18: GetDeviceInfo returns ErrUnknownDevice exactly when no device row
\* joined with a user mapping exists for the id, and otherwise returns the
\* device with its owning user and with loggedIn equal to "the push URL is not
\* empty", whatever loggedIn value was passed to RegisterDevice.
C18_DeviceInfo ==
    [][Did("GetDeviceInfo") =>
         LET ds == RowsOfDevice(deviceInfo, ret'.dev)
             us == RowsOfDevice(userToDeviceMap, ret'.dev)
         IN  /\ (ret'.err = "ErrUnknownDevice") <=> (ds = {} \/ us = {})
             /\ (ds = {} \/ us = {}) => ret'.got = NoDevice
             /\ (ds # {} /\ us # {}) =>
                   /\ ret'.err = ""
                   /\ \E d \in ds, u \in us :
                         /\ ret'.got.ID = ret'.dev
                         /\ ret'.got.User = u.userId
                         /\ ret'.got.PushUrl = d.pushUrl
                         /\ ret'.got.LoggedIn = (d.pushUrl # <<>>)
                         /\ ret'.got.Secret = d.hawkSecret
                         /\ ret'.got.HasPasscode = d.lockable
                         /\ ret'.got.Accepts = d.accepts
             /\ (/\ ret.op = "RegisterDevice" /\ ret.dev = ret'.dev
                 /\ Cardinality(ds) = 1) =>
                   /\ ret'.err = ""
                   /\ ret'.got.LoggedIn = (ret.info.PushUrl # <<>>)]_vars

\* A device registered as logged in, without a push URL, has been returned as
\* not logged in.
C18_Witness ==
    /\ ret.op = "GetDeviceInfo" /\ ret.err = "" /\ ~ret.got.LoggedIn
    /\ ret.got.PushUrl = <<>>
    /\ \E d \in deviceInfo :
          /\ RowsOfDevice(deviceInfo, ret.dev) = {d}
          /\ d.loggedin

\* C16: for any interleaving of GetDevicesForUser(new, old) with a concurrent
\* RegisterDevice(old, device) for a device mapped under old, once both calls
\* have completed no mapping row exists under the old user id.
C16_NoResurrection ==
    \A p, q \in Procs :
        (/\ proc[p].op = "GetDevicesForUser" /\ proc[p].pc = "done"
         /\ proc[p].old # <<>> /\ proc[p].old # proc[p].user
         /\ proc[q].op = "RegisterDevice" /\ proc[q].pc = "done"
         /\ proc[q].user = proc[p].old /\ proc[q].known)
        => RowsOfUser(userToDeviceMap, proc[p].old) = {}

\* The rows of the devices other than devId.
RowsOfOthers(tbl, devId) == {r \in tbl : r.deviceId # devId}

\* The four tables of a device are empty.
NoRowsOf(devId) ==
    /\ RowsOfDevice(pendingCommands, devId) = {}
    /\ RowsOfDevice(position, devId) = {}
    /\ RowsOfDevice(userToDeviceMap, devId) = {}
    /\ RowsOfDevice(deviceInfo, devId) = {}

\* C17: after a DeleteDevice(d) that returns no error no pending command,
\* position, user mapping or device-info row exists for d, so GetPending(d)
\* returns empty, GetPositions(d) returns no position and GetDeviceInfo(d)
\* fails with ErrUnknownDevice; the rows of every other device are unchanged;
\* a second DeleteDevice(d) also succeeds, when no statement of it fails, and
\* changes nothing.
C17_Cascade ==
    [][/\ (Did("DeleteDevice") /\ ret'.err = "") =>
            /\ pendingCommands' = RowsOfOthers(pendingCommands, ret'.dev)
            /\ position' = RowsOfOthers(position, ret'.dev)
            /\ userToDeviceMap' = RowsOfOthers(userToDeviceMap, ret'.dev)
            /\ deviceInfo' = RowsOfOthers(deviceInfo, ret'.dev)
       /\ (Did("DeleteDevice") /\ ret'.failAt = 0) => ret'.err = ""
       /\ (ret.op = "DeleteDevice" /\ ret.err = "" /\ ret'.dev = ret.dev) =>
            /\ NoRowsOf(ret.dev)
            /\ Did("GetPending") =>
                   (ret'.cmd = <<>> /\ ret'.ctype = <<>> /\ ret'.err = "")
            /\ Did("GetPositions") => (ret'.positions = <<>> /\ ret'.err = "")
            /\ Did("GetDeviceInfo") => ret'.err = "ErrUnknownDevice"
            /\ (Did("DeleteDevice") /\ ret'.err = "") =>
                   UNCHANGED <<pendingCommands, position, userToDeviceMap,
                               deviceInfo>>]_vars

\* The one registered device, with its one pending command and its one
\* position, has been deleted without error.
C17_Witness ==
    /\ ret.op = "DeleteDevice" /\ ret.err = "" /\ ret.at = 3
    /\ serial.pending = 1 /\ serial.position = 1 /\ serial.device = 1
    /\ serial.map = 1
    /\ NoRowsOf(ret.dev)

\* C19 as stated: the MAC a verifier recomputes with GenerateSignature from
\* the same request values, timestamp, nonce and secret satisfies Compare
\* against the MAC of the signer; and changing the claimed MAC, the request
\* path or the secret makes Compare return false.
C19_Original ==
    hawk.step = "recomputed" =>
        (hawk.ok <=> (/\ hawk.claimed = hawk.signer.Signature
                      /\ hawk.vreq.Path = hawk.req.Path
                      /\ hawk.vsecret = hawk.secret))

\* The key of the HMAC, as C19 amended describes it: the secret, or its
\* SHA-256 digest when the secret is longer than 64 bytes, without its
\* trailing zero bytes.
KeyOfSecret(secret) ==
    TrimRight(IF ByteLen(secret) > HmacBlock THEN Digest(secret) ELSE secret, NUL)

\* C19 amended: ... and changing the claimed MAC otherwise than in its
\* trailing "=" characters, the request path, or the key of the HMAC makes
\* Compare return false, where the key is the secret, or its SHA-256 digest
\* when the secret is longer than 64 bytes, without its trailing zero bytes;
\* a change of the trailing "=" of the MAC, or of the secret that leaves the
\* key the same, leaves it true.
C19_RoundTrip ==
    hawk.step = "recomputed" =>
        (hawk.ok <=> (/\ TrimRight(hawk.claimed, EQ)
                            = TrimRight(hawk.signer.Signature, EQ)
                      /\ hawk.vreq.Path = hawk.req.Path
                      /\ KeyOfSecret(hawk.vsecret) = KeyOfSecret(hawk.secret)))

\* The MAC signed under a secret of 64 bytes, compared with the MAC
\* recomputed for the same request under that secret followed by a zero
\* byte, has been rejected.
C19_Witness ==
    /\ hawk.step = "recomputed" /\ ~hawk.ok
    /\ hawk.claimed = hawk.signer.Signature
    /\ hawk.vreq.Path = hawk.req.Path
    /\ Len(hawk.secret) = HmacBlock
    /\ hawk.vsecret = hawk.secret \o <<NUL>>
    /\ hawk.verifier.Time = hawk.signer.Time
    /\ hawk.verifier.Nonce = hawk.signer.Nonce

\* C20: if a request was signed over body B and the verifier receives the
\* same Authorization header, its hash field included, with another body B',
\* the MAC recomputed by ParseAuthHeader followed by GenerateSignature with B'
\* does not match the claimed MAC, so verification fails.
C20_BodyBound ==
    (/\ hawk.step = "verified" /\ hawk.err = ""
     /\ hawk.vreq.Authorization
            = WireHeader([hawk.signer EXCEPT !.Extra = hawk.extra], hawk.id)
     /\ hawk.vbody # hawk.body)
    => ~hawk.ok

\* C21: ParseAuthHeader returns ErrNoAuth when the Authorization header is
\* absent or empty, ErrNotHawkAuth for every non-empty header whose scheme
\* prefix is not case-insensitively "Hawk" (headers shorter than the scheme
\* token included), and no error otherwise; it never terminates abnormally.
C21_ParseErrors ==
    hawk.step = "verified" =>
        LET auth == hawk.vreq.Authorization
        IN  hawk.err = IF auth = <<>> THEN "ErrNoAuth"
                       ELSE IF Len(auth) < Len(StrHawk)
                               \/ ToLower(Upto(auth, Len(StrHawk))) # StrHawk
                       THEN "ErrNotHawkAuth"
                       ELSE ""

\* C22: when the storage lookup inside CheckNonce or GetPending fails, the
\* call returns a non-nil error, which differs from the result for a
\* legitimately absent row.
C22_LookupFailure ==
    [][((Did("CheckNonce") \/ Did("GetPending")) /\ ret'.fault \in LookFaults)
           => ret'.err = "error"]_vars

\* C27: whenever CheckNonce returns true the row of the nonce is no longer in
\* the store, even when any individual storage statement (the delete after
\* the lookup in particular) can fail; so a nonce that has been accepted once
\* is never accepted again.
C27_AcceptedConsumed ==
    [][\A n \in NonceInputs :
           (DidCheck(n) /\ ret'.ok) =>
               /\ \A r \in nonce' : r.key # SplitN2(n, DOT)[1]
               /\ n \notin accepted]_vars

\* C24: GcDatabase deletes old position records except the latest one, so
\* a device that has at least one position row before GcDatabase still has
\* at least one position row after it.
C24_KeepsLatest ==
    [][Did("GcDatabase") =>
           \A d \in Devices :
               RowsOfDevice(position, d) # {} => RowsOfDevice(position', d) # {}]_vars

\* C25: the per-table deletes of DeleteDevice run in the order pending
\* commands, position, user mapping, device info; if the delete on one table
\* fails, DeleteDevice returns that error, the tables earlier in the order
\* have no rows for the device, and the rows of the device in the failing
\* table and in every later table are unchanged.
C25_FailureOrder ==
    [][\A k \in 1..4 :
           (Did("DeleteDevice") /\ ret'.failAt = k) =>
               LET before == <<pendingCommands, position, userToDeviceMap,
                               deviceInfo>>
                   after == <<pendingCommands', position', userToDeviceMap',
                              deviceInfo'>>
               IN  /\ ret'.err # ""
                   /\ \A j \in 1..4 :
                          IF j < k
                          THEN after[j] = RowsOfOthers(before[j], ret'.dev)
                          ELSE after[j] = before[j]]_vars

\* The delete on the user mapping of a registered device with a pending
\* command and a position has failed: the command and the position are
\* gone, the mapping and the device-info row are there.
C25_Witness ==
    /\ ret.op = "DeleteDevice" /\ ret.err # "" /\ ret.failAt = 3
    /\ serial.pending >= 1 /\ serial.position >= 1
    /\ RowsOfDevice(pendingCommands, ret.dev) = {}
    /\ RowsOfDevice(position, ret.dev) = {}
    /\ RowsOfDevice(userToDeviceMap, ret.dev) # {}
    /\ RowsOfDevice(deviceInfo, ret.dev) # {}

\* C26: for quote-free and comma-free values, parsing with ParseAuthHeader
\* the header string produced by AsHeader yields the same id, ts, nonce, hash
\* and mac that AsHeader rendered, and an ext equal to the extra string over
\* which the MAC was computed.
C26_HeaderRoundTrip ==
    (hawk.step = "verified" /\ hawk.vreq.Authorization = hawk.header) =>
        /\ hawk.err = ""
        /\ hawk.parsed.Id = hawk.id
        /\ hawk.parsed.Time = hawk.signer.Time
        /\ hawk.parsed.Nonce = hawk.signer.Nonce
        /\ hawk.parsed.Hash = hawk.signer.Hash
        /\ hawk.parsed.Signature = hawk.signer.Signature
        /\ hawk.parsed.Extra = hawk.extra

\* C28: in every state reachable by RegisterDevice and GetDevicesForUser
\* calls, each device id has at most one device-info row and is mapped to at
\* most one user, also when the same device id is registered under a second
\* user or registered again under the old user id after a re-key.
C28_DeviceIdentity ==
    \A d \in {r.deviceId : r \in deviceInfo} \cup {m.deviceId : m \in userToDeviceMap} :
        /\ Cardinality(RowsOfDevice(deviceInfo, d)) <= 1
        /\ Cardinality({m.userId : m \in RowsOfDevice(userToDeviceMap, d)}) <= 1

\* The calls C23 lists as leaving every secret alone.
FrameOps == {"StoreCommand", "GetPending", "PurgeCommands", "SetAccessToken",
             "SetDeviceLock", "Touch", "SetDeviceLocation", "GcDatabase",
             "GetDevicesForUser", "GetNonce", "CheckNonce"}

\* The secret every device row holds.
SecretsOf(tbl) == {<<r.rid, r.deviceId, r.hawkSecret>> : r \in tbl}

\* C23 as stated: the stored hawkSecret of a device is changed only by
\* RegisterDevice for that device; StoreCommand, GetPending, PurgeCommands,
\* SetAccessToken, SetDeviceLock, Touch, SetDeviceLocation, GcDatabase,
\* GetDevicesForUser, GetNonce and CheckNonce leave the secret of every
\* device unchanged.
C23_Original ==
    [][/\ (\E op \in FrameOps : Did(op)) => SecretsOf(deviceInfo') = SecretsOf(deviceInfo)
       /\ SecretsOf(deviceInfo') # SecretsOf(deviceInfo) =>
              /\ Did("RegisterDevice")
              /\ SecretsOf(RowsOfOthers(deviceInfo', ret'.dev))
                     = SecretsOf(RowsOfOthers(deviceInfo, ret'.dev))]_vars

\* C23 amended: the stored hawkSecret of a device is set or replaced only by
\* RegisterDevice for that device and removed, with the device rows, only by
\* DeleteDevice for that device; the calls listed, and PurgePosition, leave
\* the secret of every device unchanged.
C23_SecretFrame ==
    [][/\ (\E op \in FrameOps \cup {"PurgePosition"} : Did(op)) =>
              SecretsOf(deviceInfo') = SecretsOf(deviceInfo)
       /\ SecretsOf(deviceInfo') # SecretsOf(deviceInfo) =>
              /\ Did("RegisterDevice") \/ Did("DeleteDevice")
              /\ SecretsOf(RowsOfOthers(deviceInfo', ret'.dev))
                     = SecretsOf(RowsOfOthers(deviceInfo, ret'.dev))
       /\ Did("RegisterDevice") =>
              \A r \in deviceInfo : \E q \in deviceInfo' : q.rid = r.rid
       /\ Did("DeleteDevice") =>
              /\ SecretsOf(deviceInfo') \subseteq SecretsOf(deviceInfo)
              /\ ret'.err = "" => RowsOfDevice(deviceInfo', ret'.dev) = {}]_vars

\* SetAccessToken, as the third call, has written the token into the one row
\* of a registered device, and the row holds the secret it was registered with.
C23_Witness ==
    /\ ret.op = "SetAccessToken" /\ ret.at = 2
    /\ \E r \in deviceInfo :
          /\ RowsOfDevice(deviceInfo, ret.dev) = {r}
          /\ r.accesstoken = ret.token /\ ret.token # <<>>
          /\ r.hawkSecret = <<62>>
    /\ serial.device = 1
    /\ Cardinality(deviceInfo) = 1
====
